---- MODULE Spec2Model ----
(***************************************************************************)
(* Model of the media index pipeline of custom_components/media_index:     *)
(*   scanner.py        MediaScanner (scan_folder and the directory walk)   *)
(*   cache_manager.py  CacheManager (media_files, scan_history, geocode)   *)
(*   geocoding.py      GeocodeService (rate limiter, retries)              *)
(* The code runs on one asyncio event loop: the statements between two     *)
(* awaits are one atomic step, and every await is a point where another    *)
(* task may run.  Each action below is one such step.                      *)
(***************************************************************************)
EXTENDS Integers, Sequences, FiniteSets, TLC

VARIABLES
    \* ---- MediaScanner (scanner.py) ----
    is_scanning,     \* MediaScanner._is_scanning
    pc,              \* position of each scan_folder task
    loc,             \* the locals of each running call: base_folder and watched
                     \* (the arguments), files_added, scan_paths, media_files,
                     \* the indexes the two for loops are at, and walked
                     \* (history: the paths handed to _walk_directory)
    scan_id,         \* local scan_id: <<>> while unbound, <<id>> once assigned
    result,          \* <<>> while running, <<n>> once scan_folder returned n
    \* ---- CacheManager (cache_manager.py) ----
    scan_history,    \* table scan_history: sequence of rows, id = index
    media_store,     \* table media_files: set of rows
    geocode_cache,   \* table geocode_cache: set of rows
    wall,            \* datetime.now().timestamp() as seen by the store
    disk,            \* the database file: the tables as of the last commit
                     \* (media_store and scan_history are the connection's view)
    add_call,        \* a direct add_file call between its INSERT and its commit:
                     \* <<>> when none, <<file_data>> while the commit is awaited
    added,           \* history: the paths of the add_file calls that returned
    \* ---- GeocodeService (geocoding.py) ----
    now,             \* asyncio event loop time, in seconds
    last_request_time, \* GeocodeService._last_request_time
    gpc,             \* position of each reverse_geocode task
    bucket,          \* (lat, lon) after _round_coordinate, per task
    attempt,         \* loop variable attempt
    wake,            \* time at which the pending asyncio.sleep is over
    gresult,         \* <<>> while running, <<r>> once reverse_geocode returned r
    nreq,            \* number of session.get requests the call has issued
    sleeps,          \* backoff waits the call has made (sequence of seconds)
    resps,           \* how each request of the call ended (sequence of statuses)
    request_times,   \* times of the last two requests sent to the endpoint
    expect_hit,      \* history: the call began after a call for the same bucket
                     \* had returned a parsed HTTP 200 result
    \* ---- ExifParser and VideoMetadataParser ----
    media_file,      \* the media file the extractors are called on: its suffix,
                     \* whether it can be opened, and its embedded tags
    call,            \* the last call of an extractor: its arguments and result
    written          \* history: the rating of the last ExifParser.write_rating
                     \* call on the file that returned True (None when none did)

scanVars == <<is_scanning, pc, loc, scan_id, result>>
storeVars == <<scan_history, media_store, geocode_cache, wall>>
geoVars == <<now, last_request_time, gpc, bucket, attempt, wake, gresult,
             nreq, sleeps, resps, request_times, expect_hit>>
diskVars == <<disk, add_call, added>>
extVars == <<media_file, call, written>>
vars == <<scanVars, storeVars, geoVars, diskVars, extVars>>

(***************************************************************************)
(* Bounds                                                                  *)
(***************************************************************************)
NumTasks == 2        \* concurrent scan_folder tasks
MaxWall == 2         \* the wall clock runs 1..MaxWall
NumGeoTasks == 2     \* concurrent reverse_geocode tasks
MaxNow == 8          \* the event loop clock runs 1..MaxNow
MaxRowId == 4        \* direct add_file calls stop once this row id was handed out
RatingReach == 1     \* the ratings tried go this far below 0 and above 5

Tasks == 1..NumTasks
GeoTasks == 1..NumGeoTasks

(***************************************************************************)
(* SQL values of dynamically typed columns                                 *)
(***************************************************************************)
NullV == [kind |-> "null", n |-> 0, s |-> ""]
IntV(n) == [kind |-> "integer", n |-> n, s |-> ""]
TextV(s) == [kind |-> "text", n |-> 0, s |-> s]

(***************************************************************************)
(* Filesystem: a fixed tree.  A path is the sequence of its components.    *)
(***************************************************************************)
BaseFolder == <<"media">>

\* a base path that does not exist, and one that exists but cannot be listed
MissingFolder == <<"gone">>
LockedFolder == <<"locked">>

Dirs == {<<"media">>, <<"media", "A">>, <<"media", "B">>, LockedFolder}

\* directories whose listing fails with PermissionError
Unreadable == {LockedFolder}

\* every file of the tree, in os.walk order (top-down)
FsListing ==
    << [dir |-> <<"media">>,      stem |-> "d", suffix |-> ".PNG"],
       [dir |-> <<"media", "A">>, stem |-> "a", suffix |-> ".jpg"],
       [dir |-> <<"media", "A">>, stem |-> "b", suffix |-> ".mp4"],
       [dir |-> <<"media", "B">>, stem |-> "c", suffix |-> ".txt"],
       [dir |-> LockedFolder,     stem |-> "e", suffix |-> ".jpg"] >>

\* values of the watched_folders argument
WatchedChoices == {<<>>, <<"A">>, <<"X", "B">>}

\* values of the arguments (base_folder, watched_folders)
ScanInputs ==
    {<<BaseFolder, wf>> : wf \in WatchedChoices}
    \cup {<<MissingFolder, <<>>>>, <<MissingFolder, <<"A">>>>, <<LockedFolder, <<>>>>}

IMAGE_EXTENSIONS == {".jpg", ".jpeg", ".png", ".gif", ".webp", ".bmp", ".tiff", ".heic"}
VIDEO_EXTENSIONS == {".mp4", ".mov", ".avi", ".mkv", ".webm", ".m4v", ".mpg", ".mpeg"}

\* str.lower() on the suffixes that occur in the tree
Lower(s) ==
    CASE s = ".PNG" -> ".png"
      [] s = ".JPG" -> ".jpg"
      [] s = ".MP4" -> ".mp4"
      [] OTHER -> s

PathExists(p) == p \in Dirs

IsUnder(dir, scan_path) ==
    /\ Len(dir) >= Len(scan_path)
    /\ SubSeq(dir, 1, Len(scan_path)) = scan_path

FilePath(f) == f.dir \o <<f.stem \o f.suffix>>

_is_media_file(f) ==
    LET ext == Lower(f.suffix)
    IN ext \in IMAGE_EXTENSIONS \/ ext \in VIDEO_EXTENSIONS

_get_file_type(f) ==
    LET ext == Lower(f.suffix)
    IN IF ext \in IMAGE_EXTENSIONS THEN "image"
       ELSE IF ext \in VIDEO_EXTENSIONS THEN "video"
       ELSE "None"

\* os.stat of a file of the tree
Stat(f) == [st_size |-> 10, st_ctime |-> 1, st_mtime |-> 1, st_atime |-> 1]

\* datetime.fromtimestamp(t).isoformat(): a string, not a number
IsoFormat(t) == [kind |-> "isotext", n |-> t, s |-> ""]

\* metadata under the keys add_file reads
_get_file_metadata_as_read(f) ==
    [path          |-> FilePath(f),
     filename      |-> f.stem \o f.suffix,
     folder        |-> f.dir,
     file_type     |-> _get_file_type(f),
     file_size     |-> IntV(Stat(f).st_size),
     created_time  |-> IsoFormat(Stat(f).st_ctime),
     modified_time |-> IsoFormat(Stat(f).st_mtime)]

\* lines 47-68: the dictionary built from os.stat
_get_file_metadata(f) ==
    [path     |-> FilePath(f),
     filename |-> f.stem \o f.suffix,
     folder   |-> f.dir,
     file_type |-> _get_file_type(f),
     size     |-> Stat(f).st_size,
     created  |-> IsoFormat(Stat(f).st_ctime),
     modified |-> IsoFormat(Stat(f).st_mtime),
     accessed |-> IsoFormat(Stat(f).st_atime)]

\* os.walk leaves out a directory whose listing fails (onerror is None)
Listable(dir) == dir \notin Unreadable

\* _walk_directory(scan_path, None): metadata of every media file under scan_path
RECURSIVE WalkFrom(_, _)
WalkFrom(scan_path, i) ==
    IF i > Len(FsListing) THEN <<>>
    ELSE LET f == FsListing[i]
         IN IF IsUnder(f.dir, scan_path) /\ Listable(f.dir) /\ _is_media_file(f)
            THEN <<_get_file_metadata(f)>> \o WalkFrom(scan_path, i + 1)
            ELSE WalkFrom(scan_path, i + 1)

_walk_directory(scan_path) == WalkFrom(scan_path, 1)

(***************************************************************************)
(* CacheManager: the store operations as functions of the table            *)
(***************************************************************************)
\* the fields add_file reads with file_data[...]: a missing one is a KeyError
AddFileRequiredKeys == {"path", "filename", "folder", "file_type", "modified_time"}

\* file_data.get(key): None when the key is missing
Get(file_data, key) ==
    IF key \in DOMAIN file_data THEN file_data[key] ELSE NullV

add_file_raises_KeyError(file_data) ==
    \E k \in AddFileRequiredKeys : k \notin DOMAIN file_data

\* the values of column path in the table
Paths(store) == {r.path : r \in store}

\* id INTEGER PRIMARY KEY AUTOINCREMENT: one more than the largest id used so
\* far, which is the largest id in the table, since no statement of the store
\* deletes a row without inserting one
next_rowid(store) ==
    IF store = {} THEN 1
    ELSE 1 + (CHOOSE n \in {r.id : r \in store} : \A r \in store : r.id <= n)

\* an INSERT that leaves the rows in conflict in the table
insert_keeping(store, row) == store \cup {row}

\* INSERT OR REPLACE with path TEXT UNIQUE (line 52): the rows in conflict with
\* the new row on path are deleted, then the new row is inserted
insert_or_replace(store, row) ==
    {r \in store : r.path # row.path} \cup {row}

\* the row INSERT OR REPLACE INTO media_files (...) writes: the nine listed
\* columns, a fresh id, and the defaults of the other columns
add_file_row(file_data, ts, id) ==
    [id            |-> id,
     path          |-> file_data["path"],
     filename      |-> file_data["filename"],
     folder        |-> file_data["folder"],
     file_type     |-> file_data["file_type"],
     file_size     |-> Get(file_data, "file_size"),
     modified_time |-> file_data["modified_time"],
     created_time  |-> Get(file_data, "created_time"),
     last_scanned  |-> ts,
     orientation   |-> Get(file_data, "orientation"),
     is_favorited  |-> 0,
     rating        |-> 0,
     rated_at      |-> NullV]

add_file(store, file_data, ts) ==
    insert_or_replace(store, add_file_row(file_data, ts, next_rowid(store)))

\* a store operation that leaves its statement uncommitted
commit_deferred(file, store, hist) == file

\* await self._db.commit() (lines 250, 276, 306): the database file holds what
\* the connection has written
commit(file, store, hist) == [media_files |-> store, scan_history |-> hist]

\* record_scan: INSERT INTO scan_history ... VALUES (?, ?, ?, 'running')
\* closes counts the UPDATE statements applied to the row (history)
record_scan(hist, folder_path, scan_type, ts) ==
    Append(hist,
           [folder_path   |-> folder_path,
            scan_type     |-> scan_type,
            start_time    |-> ts,
            end_time      |-> NullV,
            files_added   |-> IntV(0),
            files_updated |-> IntV(0),
            files_removed |-> IntV(0),
            status        |-> "running",
            closes        |-> 0])

\* SELECT last_insert_rowid() after the insert
last_insert_rowid(hist) == Len(hist)

\* the default of update_scan's parameter status
update_scan_default_status == "completed"

\* the UPDATE without its WHERE clause
update_scan_every_row(hist, id, fa, fu, st, ts) ==
    [i \in DOMAIN hist |->
        [hist[i] EXCEPT !.end_time = IntV(ts),
                        !.files_added = fa,
                        !.files_updated = fu,
                        !.status = st,
                        !.closes = @ + 1]]

\* update_scan(scan_id, files_added, files_updated, status):
\* UPDATE scan_history SET end_time, files_added, files_updated, status WHERE id
update_scan(hist, id, fa, fu, st, ts) ==
    [i \in DOMAIN hist |->
        IF i = id
        THEN [hist[i] EXCEPT !.end_time = IntV(ts),
                             !.files_added = fa,
                             !.files_updated = fu,
                             !.status = st,
                             !.closes = @ + 1]
        ELSE hist[i]]

\* scan_folder line 172/180: update_scan(scan_id, files_added, "completed"|"failed")
\* binds the third positional argument to files_updated; status keeps its default
update_scan_call(hist, id, n_added, word, ts) ==
    update_scan(hist, id, IntV(n_added), TextV(word), update_scan_default_status, ts)

\* outcomes of a store operation: it returns, or raises before the statement took
\* effect, or (update) raises in commit() after the UPDATE was executed.
\* record_scan binds scan_type to the list "watched_folders or []"; whether the
\* driver accepts a list is the connection's matter (stock sqlite3 refuses it),
\* so both outcomes stay open
RecordOutcomes == {"ok", "raise"}
AddOutcomes == {"ok", "raise"}
UpdateOutcomes == {"ok", "raise_execute", "raise_commit"}
WalkOutcomes == {"ok", "raise"}

update_applied(outcome) == outcome \in {"ok", "raise_commit"}

(***************************************************************************)
(* MediaScanner.scan_folder                                                *)
(***************************************************************************)
Running == {"record_scan", "walk", "add_file", "update_scan", "except_update"}

\* a guard that never rejects
ScanGuardNever(flag) == FALSE

\* line 116: the re-entrancy guard
ScanGuard(flag) == flag

\* a finally clause that does not reset the flag
FinallyFlagKept(flag) == flag

\* lines 183-184: the value the finally clause leaves in _is_scanning
FinallyFlag(flag) == FALSE

\* lines 129-140: the paths to scan
RECURSIVE ResolveWatched(_, _)
ResolveWatched(base_folder, folders) ==
    IF folders = <<>> THEN <<>>
    ELSE LET folder_path == base_folder \o <<Head(folders)>>
         IN (IF PathExists(folder_path) THEN <<folder_path>> ELSE <<>>)
            \o ResolveWatched(base_folder, Tail(folders))

\* a scan that ignores the filter
ResolveScanPathsUnfiltered(base_folder, watched_folders) == <<base_folder>>

ResolveScanPaths(base_folder, watched_folders) ==
    IF watched_folders # <<>>
    THEN ResolveWatched(base_folder, watched_folders)
    ELSE <<base_folder>>

\* lines 143-146: the next index >= i of scan_paths whose path exists (or Len + 1)
RECURSIVE NextPath(_, _)
NextPath(paths, i) ==
    IF i > Len(paths) THEN i
    ELSE IF PathExists(paths[i]) THEN i
    ELSE NextPath(paths, i + 1)

NoLocals ==
    [base_folder |-> <<>>, watched |-> <<>>, files_added |-> 0,
     scan_paths |-> <<>>, path_idx |-> 1, media_files |-> <<>>, file_idx |-> 1,
     walked |-> {}]

\* the same with the guard inside the try, so that the finally clause runs for a
\* rejected call too
ScanCallGuardInsideTry(t, bf, wf) ==
    /\ pc[t] = "idle"
    /\ IF ScanGuard(is_scanning)
       THEN /\ pc' = [pc EXCEPT ![t] = "rejected"]
            /\ result' = [result EXCEPT ![t] = <<0>>]
            /\ is_scanning' = FinallyFlag(is_scanning)
            /\ UNCHANGED loc
       ELSE /\ is_scanning' = TRUE
            /\ loc' = [loc EXCEPT ![t] = [NoLocals EXCEPT !.base_folder = bf,
                                                          !.watched = wf]]
            /\ pc' = [pc EXCEPT ![t] = "record_scan"]
            /\ UNCHANGED result
    /\ UNCHANGED <<scan_id, storeVars, geoVars, extVars, diskVars>>

\* lines 116-127: the guard, the flag, and the call of record_scan
ScanCall(t, bf, wf) ==
    /\ pc[t] = "idle"
    /\ IF ScanGuard(is_scanning)
       THEN /\ pc' = [pc EXCEPT ![t] = "rejected"]
            /\ result' = [result EXCEPT ![t] = <<0>>]
            /\ UNCHANGED <<is_scanning, loc>>
       ELSE /\ is_scanning' = TRUE
            /\ loc' = [loc EXCEPT ![t] = [NoLocals EXCEPT !.base_folder = bf,
                                                          !.watched = wf]]
            /\ pc' = [pc EXCEPT ![t] = "record_scan"]
            /\ UNCHANGED result
    /\ UNCHANGED <<scan_id, storeVars, geoVars, extVars, diskVars>>

\* "return n" inside the try (line 175 or 181), then finally (lines 183-184)
Return(t, n) ==
    /\ result' = [result EXCEPT ![t] = <<n>>]
    /\ pc' = [pc EXCEPT ![t] = "returned"]
    /\ is_scanning' = FinallyFlag(is_scanning)
    /\ loc' = [loc EXCEPT ![t] = NoLocals]

\* an exception leaves scan_folder through finally (lines 183-184)
Raise(t) ==
    /\ pc' = [pc EXCEPT ![t] = "raised"]
    /\ is_scanning' = FinallyFlag(is_scanning)
    /\ loc' = [loc EXCEPT ![t] = NoLocals]
    /\ UNCHANGED result

\* an exception reaches "except Exception" (lines 177-181):
\* with scan_id unbound, "if scan_id" raises UnboundLocalError out of scan_folder;
\* otherwise the handler awaits update_scan(scan_id, files_added, "failed")
EnterExcept(t) ==
    IF scan_id[t] = <<>>
    THEN Raise(t)
    ELSE /\ pc' = [pc EXCEPT ![t] = "except_update"]
         /\ UNCHANGED <<is_scanning, loc, result>>

\* the for loops of lines 143-169 move on from path index i: to the walk of the
\* next existing path, or past the loops to update_scan (line 172)
AdvanceToPath(t, l, i) ==
    LET j == NextPath(l.scan_paths, i)
    IN /\ loc' = [loc EXCEPT ![t] = [l EXCEPT !.path_idx = j]]
       /\ pc' = [pc EXCEPT ![t] =
                   IF j <= Len(l.scan_paths) THEN "walk" ELSE "update_scan"]

\* line 127 returns (or raises); lines 129-152 up to the await of the walk
RecordScan(t, outcome) ==
    /\ pc[t] = "record_scan"
    /\ IF outcome = "ok"
       THEN /\ scan_history' =
                 record_scan(scan_history, loc[t].base_folder, loc[t].watched, wall)
            /\ scan_id' = [scan_id EXCEPT ![t] = <<last_insert_rowid(scan_history')>>]
            /\ AdvanceToPath(t,
                 [loc[t] EXCEPT !.scan_paths =
                                   ResolveScanPaths(loc[t].base_folder,
                                                    loc[t].watched)],
                 1)
            /\ UNCHANGED <<is_scanning, result>>
       ELSE /\ EnterExcept(t)
            /\ UNCHANGED <<scan_history, scan_id>>
    /\ disk' = IF outcome = "ok"
               THEN commit(disk, media_store, scan_history')
               ELSE disk
    /\ UNCHANGED <<media_store, geocode_cache, wall, geoVars, extVars, add_call, added>>

\* lines 151-160: the executor job returns the walk of the current path (or the
\* await raises); the inner loop starts on its files
Walk(t, outcome) ==
    /\ pc[t] = "walk"
    /\ IF outcome = "ok"
       THEN LET files == _walk_directory(loc[t].scan_paths[loc[t].path_idx])
                l == [loc[t] EXCEPT !.media_files = files, !.file_idx = 1,
                                    !.walked = @ \cup {loc[t].scan_paths[loc[t].path_idx]}]
            IN /\ IF files # <<>>
                  THEN /\ pc' = [pc EXCEPT ![t] = "add_file"]
                       /\ loc' = [loc EXCEPT ![t] = l]
                  ELSE AdvanceToPath(t, l, l.path_idx + 1)
               /\ UNCHANGED <<is_scanning, result>>
       ELSE EnterExcept(t)
    /\ UNCHANGED <<scan_id, storeVars, geoVars, extVars, diskVars>>

\* a loop body with no try around add_file
FileErrorUncaught(failed) == failed

\* lines 161-169: "except Exception" around add_file catches every failure, so
\* none reaches the handler of the scan
FileErrorPropagates(failed) == FALSE

\* the same with files_added counted before add_file is awaited
AddFileCountedFirst(t, outcome) ==
    /\ pc[t] = "add_file"
    /\ LET metadata == loc[t].media_files[loc[t].file_idx]
           ok == ~add_file_raises_KeyError(metadata) /\ outcome = "ok"
           l == [loc[t] EXCEPT !.files_added = @ + 1]
       IN /\ media_store' =
               IF ok THEN add_file(media_store, metadata, wall) ELSE media_store
          /\ disk' = IF ok THEN commit(disk, media_store', scan_history) ELSE disk
          /\ added' = IF ok THEN added \cup {metadata["path"]} ELSE added
          /\ IF FileErrorPropagates(~ok)
             THEN /\ EnterExcept(t)
                  /\ UNCHANGED scan_id
             ELSE /\ IF l.file_idx < Len(l.media_files)
                     THEN /\ loc' = [loc EXCEPT ![t] = [l EXCEPT !.file_idx = @ + 1]]
                          /\ UNCHANGED pc
                     ELSE AdvanceToPath(t, l, l.path_idx + 1)
                  /\ UNCHANGED <<is_scanning, scan_id, result>>
    /\ UNCHANGED <<scan_history, geocode_cache, wall, geoVars, extVars, add_call>>

\* lines 160-169: one add_file; a failure is logged and the loop goes on
AddFile(t, outcome) ==
    /\ pc[t] = "add_file"
    /\ LET metadata == loc[t].media_files[loc[t].file_idx]
           ok == ~add_file_raises_KeyError(metadata) /\ outcome = "ok"
           l == IF ok THEN [loc[t] EXCEPT !.files_added = @ + 1] ELSE loc[t]
       IN /\ media_store' =
               IF ok THEN add_file(media_store, metadata, wall) ELSE media_store
          /\ disk' = IF ok THEN commit(disk, media_store', scan_history) ELSE disk
          /\ added' = IF ok THEN added \cup {metadata["path"]} ELSE added
          /\ IF FileErrorPropagates(~ok)
             THEN /\ EnterExcept(t)
                  /\ UNCHANGED scan_id
             ELSE /\ IF l.file_idx < Len(l.media_files)
                     THEN /\ loc' = [loc EXCEPT ![t] = [l EXCEPT !.file_idx = @ + 1]]
                          /\ UNCHANGED pc
                     ELSE AdvanceToPath(t, l, l.path_idx + 1)
                  /\ UNCHANGED <<is_scanning, scan_id, result>>
    /\ UNCHANGED <<scan_history, geocode_cache, wall, geoVars, extVars, add_call>>

\* an update_scan that does not wait for the loop over the files to end
UpdateScanBeforeLastFile(t, outcome) ==
    /\ pc[t] \in {"add_file", "update_scan"}
    /\ scan_history' =
         IF update_applied(outcome)
         THEN update_scan_call(scan_history, scan_id[t][1], loc[t].files_added,
                               "completed", wall)
         ELSE scan_history
    /\ IF outcome = "ok"
       THEN Return(t, loc[t].files_added)
       ELSE EnterExcept(t)
    /\ disk' = IF outcome = "ok"
               THEN commit(disk, media_store, scan_history')
               ELSE disk
    /\ UNCHANGED <<scan_id, media_store, geocode_cache, wall, geoVars, extVars, add_call, added>>

\* lines 172-175: update_scan(scan_id, files_added, "completed"), return, finally
UpdateScan(t, outcome) ==
    /\ pc[t] = "update_scan"
    /\ scan_history' =
         IF update_applied(outcome)
         THEN update_scan_call(scan_history, scan_id[t][1], loc[t].files_added,
                               "completed", wall)
         ELSE scan_history
    /\ IF outcome = "ok"
       THEN Return(t, loc[t].files_added)
       ELSE EnterExcept(t)
    /\ disk' = IF outcome = "ok"
               THEN commit(disk, media_store, scan_history')
               ELSE disk
    /\ UNCHANGED <<scan_id, media_store, geocode_cache, wall, geoVars, extVars, add_call, added>>

\* lines 179-184: update_scan(scan_id, files_added, "failed") in the handler;
\* an exception raised here leaves scan_folder
ExceptUpdate(t, outcome) ==
    /\ pc[t] = "except_update"
    /\ scan_history' =
         IF update_applied(outcome)
         THEN update_scan_call(scan_history, scan_id[t][1], loc[t].files_added,
                               "failed", wall)
         ELSE scan_history
    /\ IF outcome = "ok"
       THEN Return(t, loc[t].files_added)
       ELSE Raise(t)
    /\ disk' = IF outcome = "ok"
               THEN commit(disk, media_store, scan_history')
               ELSE disk
    /\ UNCHANGED <<scan_id, media_store, geocode_cache, wall, geoVars, extVars, add_call, added>>

\* file_data as add_file reads it, for the files of the tree under BaseFolder
\* (modified_time m), and the record _get_file_metadata builds for one of them
StoreFileData ==
    {[path          |-> FilePath(FsListing[k]),
      filename      |-> FsListing[k].stem \o FsListing[k].suffix,
      folder        |-> FsListing[k].dir,
      file_type     |-> _get_file_type(FsListing[k]),
      file_size     |-> IntV(Stat(FsListing[k]).st_size),
      modified_time |-> m] : k \in 1..2, m \in 1..2}
    \cup {_get_file_metadata(FsListing[1])}

\* a caller awaits CacheManager.add_file(file_data)
AddFileCall(file_data, outcome) ==
    /\ next_rowid(media_store) <= MaxRowId
    /\ add_call = <<>>
    /\ LET ok == ~add_file_raises_KeyError(file_data) /\ outcome = "ok"
       IN /\ media_store' =
               IF ok THEN add_file(media_store, file_data, wall) ELSE media_store
          /\ disk' = IF ok THEN commit(disk, media_store', scan_history) ELSE disk
          /\ added' = IF ok THEN added \cup {file_data["path"]} ELSE added
    /\ UNCHANGED <<scanVars, scan_history, geocode_cache, wall, geoVars, extVars, add_call>>

\* the same call in two steps.  Lines 233-248: the INSERT OR REPLACE is
\* executed on the connection (or raises), and the commit is awaited
AddFileExecute(file_data, outcome) ==
    /\ next_rowid(media_store) <= MaxRowId
    /\ add_call = <<>>
    /\ \E t \in Tasks : pc[t] # "stopped"
    /\ LET ok == ~add_file_raises_KeyError(file_data) /\ outcome = "ok"
       IN /\ media_store' =
               IF ok THEN add_file(media_store, file_data, wall) ELSE media_store
          /\ add_call' = IF ok THEN <<file_data>> ELSE <<>>
    /\ UNCHANGED <<scanVars, scan_history, geocode_cache, wall, geoVars, extVars, disk, added>>

\* lines 250-258: the commit returns and add_file returns the id of the row,
\* or the commit raises and so does add_file
AddFileCommit(outcome) ==
    /\ add_call # <<>>
    /\ add_call' = <<>>
    /\ disk' = IF outcome = "ok"
               THEN commit(disk, media_store, scan_history)
               ELSE disk
    /\ added' = IF outcome = "ok" THEN added \cup {add_call[1]["path"]} ELSE added
    /\ UNCHANGED <<scanVars, storeVars, geoVars, extVars>>

\* the process stops: every task is gone, and the database is what the file holds
Crash ==
    /\ \E t \in Tasks : pc[t] # "stopped"
    /\ pc' = [t \in Tasks |-> "stopped"]
    /\ loc' = [t \in Tasks |-> NoLocals]
    /\ is_scanning' = FALSE
    /\ media_store' = disk.media_files
    /\ scan_history' = disk.scan_history
    /\ add_call' = <<>>
    /\ UNCHANGED <<scan_id, result, geocode_cache, wall, geoVars, extVars, disk, added>>

\* the marks a user gives a file
UserMarks == {[is_favorited |-> 1, rating |-> 5], [is_favorited |-> 0, rating |-> 3]}

\* the service layer stores a user's favorite flag and rating on the record of
\* path, with the time of the rating
SetRating(path, mark) ==
    /\ path \in Paths(media_store)
    /\ media_store' =
         {IF r.path = path
          THEN [r EXCEPT !.is_favorited = mark.is_favorited,
                         !.rating = mark.rating,
                         !.rated_at = IntV(wall)]
          ELSE r : r \in media_store}
    /\ disk' = commit(disk, media_store', scan_history)
    /\ UNCHANGED <<scanVars, scan_history, geocode_cache, wall, geoVars, extVars, add_call, added>>

\* the wall clock advances
TickWall ==
    /\ wall < MaxWall
    /\ wall' = wall + 1
    /\ UNCHANGED <<scanVars, scan_history, media_store, geocode_cache, geoVars, extVars,
                   diskVars>>

(***************************************************************************)
(* GeocodeService                                                          *)
(***************************************************************************)
RATE_LIMIT_DELAY == 1
COORDINATE_PRECISION == 3
max_retries == 3

RECURSIVE Pow(_, _)
Pow(b, n) == IF n = 0 THEN 1 ELSE b * Pow(b, n - 1)

\* round(coord, COORDINATE_PRECISION), a coordinate being an integer number of
\* 10^-4 degrees: to the nearest multiple of 10^-3 degrees (a tie goes to the
\* even multiple; the inputs below hold no tie)
_round_coordinate(coord) ==
    LET unit == Pow(10, 4 - COORDINATE_PRECISION)
        q == coord \div unit
        r == coord % unit
    IN IF 2 * r < unit THEN unit * q
       ELSE IF 2 * r > unit THEN unit * (q + 1)
       ELSE IF q % 2 = 0 THEN unit * q ELSE unit * (q + 1)

\* (latitude, longitude) arguments: the first two round to the same bucket
LatLonInputs == {<<407128, -740060>>, <<407131, -740057>>, <<407136, -740064>>}

\* what one request to the endpoint ends with
Statuses == {"200", "429", "500", "timeout", "error"}

\* str.strip() on the strings that occur in the responses
Strip(s) ==
    CASE s = " " -> ""
      [] s = " Cafe " -> "Cafe"
      [] s = " A " -> "A"
      [] s = " Main St" -> "Main St"
      [] OTHER -> s

\* d.get(key, default)
GetOr(d, key, default) == IF key \in DOMAIN d THEN d[key] ELSE default

\* a or b or ... over the fields of address named in keys, else fallback:
\* the first value that is not the empty string
RECURSIVE FirstTruthy(_, _, _)
FirstTruthy(address, keys, fallback) ==
    IF keys = <<>> THEN fallback
    ELSE IF GetOr(address, Head(keys), "") # "" THEN address[Head(keys)]
    ELSE FirstTruthy(address, Tail(keys), fallback)

NameKeys == <<"amenity", "building", "tourism", "leisure", "suburb",
              "neighbourhood", "hamlet", "village", "town", "city">>
CityKeys == <<"city", "town", "village", "municipality">>

\* JSON bodies of HTTP 200 responses; display_name is held as its
\* comma-separated segments (display_name.split(','))
NominatimData ==
    { [address |-> [amenity |-> " Cafe ", city |-> "Paris", country |-> "France"],
       display_name |-> <<"Cafe", " Paris", " France">>],
      [address |-> [town |-> " ", country |-> ""],
       display_name |-> <<"Main St", " Smallville">>],
      [address |-> [municipality |-> "Oslo"],
       display_name |-> <<"">>] }

NoData == [address |-> <<>>, display_name |-> <<"">>]

\* a response: its status and, for HTTP 200, its JSON body
Responses ==
    {[status |-> "200", data |-> d] : d \in NominatimData}
    \cup {[status |-> st, data |-> NoData] : st \in Statuses \ {"200"}}

NoneResult == [ok |-> FALSE, location_name |-> "", location_city |-> "",
               location_country |-> ""]

\* the same, passing over the fields that are blank after strip()
_parse_nominatim_response_skipping_blank(data) ==
    LET address == [k \in DOMAIN data.address |-> Strip(data.address[k])]
        location_name == FirstTruthy(address, NameKeys, data.display_name[1])
        location_city == FirstTruthy(address, CityKeys, "")
        location_country == GetOr(address, "country", "")
    IN [ok |-> TRUE,
        location_name |-> Strip(location_name),
        location_city |-> Strip(location_city),
        location_country |-> Strip(location_country)]

\* _parse_nominatim_response: "a or b or ..." takes the first field that is not
\* empty, and the value taken is stripped afterwards
_parse_nominatim_response(data) ==
    LET address == data.address
        location_name == FirstTruthy(address, NameKeys, data.display_name[1])
        location_city == FirstTruthy(address, CityKeys, "")
        location_country == GetOr(address, "country", "")
    IN [ok |-> TRUE,
        location_name |-> Strip(location_name),
        location_city |-> Strip(location_city),
        location_country |-> Strip(location_country)]

\* the times of the last two requests, the new one last
LastTwo(times, t) ==
    IF Len(times) < 2 THEN Append(times, t) ELSE <<times[2], t>>

\* _rate_limit, lines 57-63: the wait computed from the clock and the stamp read
\* on entry (0 when no wait is needed)
RateLimitWait(current_time, last) ==
    LET time_since_last == current_time - last
    IN IF time_since_last < RATE_LIMIT_DELAY
       THEN RATE_LIMIT_DELAY - time_since_last
       ELSE 0

\* line 65 and lines 117-122: stamp the request time and send the request
SendRequest(g) ==
    /\ last_request_time' = now
    /\ request_times' = LastTwo(request_times, now)
    /\ nreq' = [nreq EXCEPT ![g] = @ + 1]
    /\ gpc' = [gpc EXCEPT ![g] = "http"]
    /\ UNCHANGED wake

\* one pass of the loop body up to its first suspension (lines 97-122):
\* _rate_limit either sleeps, or stamps and the request goes out
BeginAttempt(g) ==
    LET delay == RateLimitWait(now, last_request_time)
    IN IF delay > 0
       THEN /\ gpc' = [gpc EXCEPT ![g] = "rate_limit_sleep"]
            /\ wake' = [wake EXCEPT ![g] = now + delay]
            /\ UNCHANGED <<last_request_time, request_times, nreq>>
       ELSE SendRequest(g)

\* a call that began after hit_bucket was resolved by a returned call
Resolved(b) ==
    \E h \in GeoTasks : gpc[h] = "done" /\ gresult[h][1].ok /\ bucket[h] = b

\* lines 89-100: reverse_geocode is called
GeoCall(g, ll) ==
    /\ gpc[g] = "idle"
    /\ bucket' = [bucket EXCEPT ![g] = <<_round_coordinate(ll[1]),
                                         _round_coordinate(ll[2])>>]
    /\ expect_hit' = [expect_hit EXCEPT ![g] = Resolved(bucket'[g])]
    /\ attempt' = [attempt EXCEPT ![g] = 0]
    /\ BeginAttempt(g)
    /\ UNCHANGED <<gresult, sleeps, resps, now>>
    /\ UNCHANGED <<scanVars, storeVars, diskVars, extVars>>

\* lines 63-65: asyncio.sleep(delay) of _rate_limit is over
RateLimitWake(g) ==
    /\ gpc[g] = "rate_limit_sleep"
    /\ now >= wake[g]
    /\ SendRequest(g)
    /\ UNCHANGED <<bucket, expect_hit, attempt, gresult, sleeps, resps, now>>
    /\ UNCHANGED <<scanVars, storeVars, diskVars, extVars>>

\* a return statement: no sleep of the call is pending any more
GeoReturn(g, r) ==
    /\ gresult' = [gresult EXCEPT ![g] = <<r>>]
    /\ gpc' = [gpc EXCEPT ![g] = "done"]
    /\ wake' = [wake EXCEPT ![g] = 0]
    /\ UNCHANGED sleeps

\* the value of the loop variable once the call has returned (the frame is gone)
AttemptAfter(returns, a) == IF returns THEN 0 ELSE a

\* lines 129 and 142: the backoff wait after attempt number a
BackoffSecondsLinear(a) == a + 1

BackoffSeconds(a) == Pow(2, a)

GeoBackoff(g) ==
    /\ sleeps' = [sleeps EXCEPT ![g] = Append(@, BackoffSeconds(attempt[g]))]
    /\ wake' = [wake EXCEPT ![g] = now + BackoffSeconds(attempt[g])]
    /\ gpc' = [gpc EXCEPT ![g] = "backoff"]
    /\ UNCHANGED gresult

\* lines 123-149: what attempt number a does when its request ends with status
OutcomeIgnoringStatus(status, a) == "return_parsed"

OutcomeTimeoutGivesUp(status, a) ==
    CASE status = "200" -> "return_parsed"
      [] status = "429" -> "backoff"
      [] OTHER -> "return_none"

OutcomeRetryingAnyStatus(status, a) ==
    CASE status = "200" -> "return_parsed"
      [] status = "error" -> "return_none"
      [] OTHER -> "backoff"

Outcome(status, a) ==
    CASE status = "200" -> "return_parsed"
      [] status = "429" -> "backoff"
      [] status = "timeout" ->
           IF a < max_retries - 1 THEN "backoff" ELSE "return_none"
      [] OTHER -> "return_none"

\* lines 122-149: the request ends
HttpResponse(g, resp) ==
    /\ gpc[g] = "http"
    /\ CASE Outcome(resp.status, attempt[g]) = "return_parsed" ->
              GeoReturn(g, _parse_nominatim_response(resp.data))
         [] Outcome(resp.status, attempt[g]) = "backoff" -> GeoBackoff(g)
         [] OTHER -> GeoReturn(g, NoneResult)
    /\ resps' = [resps EXCEPT ![g] = Append(@, resp.status)]
    /\ attempt' = [attempt EXCEPT ![g] = AttemptAfter(gpc'[g] = "done", @)]
    /\ UNCHANGED <<now, last_request_time, bucket, nreq, request_times, expect_hit>>
    /\ UNCHANGED <<scanVars, storeVars, diskVars, extVars>>

\* the backoff sleep is over: "continue" starts the next attempt, or the loop
\* is exhausted and line 151 returns None
BackoffWake(g) ==
    /\ gpc[g] = "backoff"
    /\ now >= wake[g]
    /\ IF attempt[g] + 1 < max_retries
       THEN /\ BeginAttempt(g)
            /\ UNCHANGED <<gresult, sleeps>>
       ELSE /\ GeoReturn(g, NoneResult)
            /\ UNCHANGED <<last_request_time, request_times, nreq>>
    /\ attempt' = [attempt EXCEPT ![g] = AttemptAfter(gpc'[g] = "done", @ + 1)]
    /\ UNCHANGED <<bucket, expect_hit, resps, now>>
    /\ UNCHANGED <<scanVars, storeVars, diskVars, extVars>>

\* the event loop clock advances by one second; a sleep that is due resumes
\* before the clock moves on
Tick ==
    /\ now < MaxNow
    /\ \A g \in GeoTasks :
          gpc[g] \in {"rate_limit_sleep", "backoff"} => now < wake[g]
    /\ now' = now + 1
    /\ UNCHANGED <<last_request_time, gpc, bucket, attempt, wake, gresult, nreq,
                   sleeps, resps, request_times, expect_hit>>
    /\ UNCHANGED <<scanVars, storeVars, diskVars, extVars>>

(***************************************************************************)
(* Extractors: values read from a file.  A tag value is a record with the  *)
(* same fields whatever its Python type, so that values of different types *)
(* can be compared.  A float is kept exactly: degrees as a whole number of *)
(* DegreeUnits-ths of a degree, an exposure as the fraction n/d.           *)
(***************************************************************************)
Absent == [kind |-> "absent", n |-> 0, d |-> 1, s |-> "", seq |-> <<>>]
PyNone == [kind |-> "none", n |-> 0, d |-> 1, s |-> "", seq |-> <<>>]
PyInt(n) == [kind |-> "int", n |-> n, d |-> 1, s |-> "", seq |-> <<>>]
PyStr(s) == [kind |-> "str", n |-> 0, d |-> 1, s |-> s, seq |-> <<>>]
\* a rational of the tag reader; float(r) is n/d
Rational(n, d) == [kind |-> "rational", n |-> n, d |-> d, s |-> "", seq |-> <<>>]
\* a Python tuple or list of values
PyTuple(seq) == [kind |-> "tuple", n |-> 0, d |-> 1, s |-> "", seq |-> seq]
\* a float: the fraction n/d with d > 0
PyFloat(n, d) == [kind |-> "float", n |-> n, d |-> d, s |-> "", seq |-> <<>>]
\* a float that counts degrees, in units of 1/DegreeUnits degree
Degrees(u) == [kind |-> "degrees", n |-> u, d |-> 1, s |-> "", seq |-> <<>>]
\* the float nan (float() of a reader's rational with denominator 0)
PyNaN == [kind |-> "nan", n |-> 0, d |-> 1, s |-> "", seq |-> <<>>]

\* Python truthiness of a value ("if lat and lon", "if exposure", "if rate_value")
Truthy(v) ==
    CASE v.kind \in {"absent", "none"} -> FALSE
      [] v.kind \in {"int", "float", "degrees"} -> v.n # 0
      [] v.kind = "rational" -> v.n # 0
      [] v.kind = "str" -> v.s # ""
      [] v.kind = "tuple" -> v.seq # <<>>
      [] OTHER -> TRUE

\* str(n) for an integer
Digits == <<"0", "1", "2", "3", "4", "5", "6", "7", "8", "9">>

RECURSIVE NatToStr(_)
NatToStr(n) ==
    IF n < 10 THEN Digits[n + 1] ELSE NatToStr(n \div 10) \o Digits[(n % 10) + 1]

IntToStr(n) == IF n < 0 THEN "-" \o NatToStr(0 - n) ELSE NatToStr(n)

\* int(x/y) of Python: the quotient truncated toward zero (y # 0)
TruncDiv(x, y) ==
    LET ax == IF x < 0 THEN 0 - x ELSE x
        ay == IF y < 0 THEN 0 - y ELSE y
    IN IF (x < 0) = (y < 0) THEN ax \div ay ELSE 0 - (ax \div ay)

\* x/y rounded to the nearest integer, a tie going to the even one (x >= 0, y > 0)
RoundDiv(x, y) ==
    LET q == x \div y
        r == x % y
    IN IF 2 * r < y THEN q
       ELSE IF 2 * r > y THEN q + 1
       ELSE IF q % 2 = 0 THEN q ELSE q + 1

(***************************************************************************)
(* ExifParser                                                              *)
(***************************************************************************)
DegreeUnits == 360000

\* float(c) of one component of a coordinate, in degree units when it counts
\* "per"-ths of a degree; a component that is no number raises TypeError/ValueError
ComponentUnits(c, per) == (c.n * (DegreeUnits \div per)) \div c.d

\* _convert_to_degrees: d, m, s = value; float(d) + float(m)/60.0 + float(s)/3600.0;
\* TypeError and ValueError (value is no triple, a component is no number) give
\* None; a rational with denominator 0 is the float nan, and so is the sum
_convert_to_degrees(value) ==
    IF value.kind # "tuple" \/ Len(value.seq) # 3
          \/ \E i \in 1..3 : value.seq[i].kind \notin {"rational", "int"}
    THEN PyNone
    ELSE IF \E i \in 1..3 : value.seq[i].d = 0
    THEN PyNaN
    ELSE Degrees(ComponentUnits(value.seq[1], 1) + ComponentUnits(value.seq[2], 60)
                    + ComponentUnits(value.seq[3], 3600))

\* -x of a float
Negated(x) == [x EXCEPT !.n = 0 - @]

\* the same without the hemisphere reference
_get_gps_coordinates_unsigned(gps_info) ==
    IF Truthy(gps_info.GPSLatitude) /\ Truthy(gps_info.GPSLongitude)
          /\ Truthy(gps_info.GPSLatitudeRef) /\ Truthy(gps_info.GPSLongitudeRef)
    THEN LET latitude == _convert_to_degrees(gps_info.GPSLatitude)
             longitude == _convert_to_degrees(gps_info.GPSLongitude)
         IN IF latitude = PyNone \/ longitude = PyNone
            THEN <<PyNone, PyNone>>
            ELSE <<latitude, longitude>>
    ELSE <<PyNone, PyNone>>

\* _get_gps_coordinates: both values and both references must be truthy; the
\* latitude is negated for reference 'S', the longitude for reference 'W'
_get_gps_coordinates(gps_info) ==
    IF Truthy(gps_info.GPSLatitude) /\ Truthy(gps_info.GPSLongitude)
          /\ Truthy(gps_info.GPSLatitudeRef) /\ Truthy(gps_info.GPSLongitudeRef)
    THEN LET latitude == _convert_to_degrees(gps_info.GPSLatitude)
             longitude == _convert_to_degrees(gps_info.GPSLongitude)
         IN IF latitude = PyNone \/ longitude = PyNone
            THEN <<PyNone, PyNone>>
            ELSE <<IF gps_info.GPSLatitudeRef = PyStr("S")
                   THEN Negated(latitude) ELSE latitude,
                   IF gps_info.GPSLongitudeRef = PyStr("W")
                   THEN Negated(longitude) ELSE longitude>>
    ELSE <<PyNone, PyNone>>

\* _convert_to_float: a 2-tuple (numerator, denominator) with a non-zero
\* denominator is their quotient, any other tuple None; else float(value)
_convert_to_float(value) ==
    CASE value.kind = "tuple" ->
            IF Len(value.seq) = 2 /\ value.seq[2].kind = "int" /\ value.seq[2].n # 0
                  /\ value.seq[1].kind = "int"
            THEN IF value.seq[2].n > 0
                 THEN PyFloat(value.seq[1].n, value.seq[2].n)
                 ELSE PyFloat(0 - value.seq[1].n, 0 - value.seq[2].n)
            ELSE PyNone
      [] value.kind = "rational" ->
            IF value.d = 0 THEN PyNaN
            ELSE IF value.d > 0 THEN PyFloat(value.n, value.d)
            ELSE PyFloat(0 - value.n, 0 - value.d)
      [] value.kind = "int" -> PyFloat(value.n, 1)
      [] OTHER -> PyNone

\* f"{exposure:.1f}s": one decimal, then "s"
OneDecimal(x) ==
    LET tenths == RoundDiv(10 * x.n, x.d)
    IN IntToStr(tenths \div 10) \o "." \o IntToStr(tenths % 10) \o "s"

\* lines 190-197: shutter speed of the fragment
shutter_speed(exif) ==
    IF exif.ExposureTime = Absent THEN PyNone
    ELSE LET exposure == _convert_to_float(exif.ExposureTime)
         IN IF ~Truthy(exposure) THEN PyNone
            ELSE IF exposure = PyNaN THEN PyStr("nans")
            ELSE IF exposure.n < exposure.d
                 THEN PyStr("1/" \o IntToStr(TruncDiv(exposure.d, exposure.n)))
                 ELSE PyStr(OneDecimal(exposure))

\* the tags of an image that the model follows; a tag the file lacks is Absent
NoGps ==
    [GPSLatitude |-> Absent, GPSLatitudeRef |-> Absent,
     GPSLongitude |-> Absent, GPSLongitudeRef |-> Absent]

EmptyExif ==
    [Make |-> Absent, ISOSpeedRatings |-> Absent, ExposureTime |-> Absent,
     Rating |-> Absent, GPSInfo |-> NoGps]

\* the tags of a video container that the model follows
EmptyVideo ==
    [creation_time |-> Absent, modification_time |-> Absent,
     creationdate |-> Absent, day |-> Absent, ISO6709 |-> Absent,
     rate |-> Absent, itunes_rating |-> Absent]

\* the fragment fields that the model follows; present is FALSE for a return of None
NoFragment ==
    [present |-> FALSE, camera_make |-> PyNone, date_taken |-> PyNone,
     latitude |-> PyNone, longitude |-> PyNone, iso |-> PyNone,
     shutter_speed |-> PyNone, rating |-> PyNone]

\* exif.get(key): None for a missing key
DictGet(v) == IF v = Absent THEN PyNone ELSE v

EXIF_SUFFIXES == {".jpg", ".jpeg", ".png", ".tiff", ".tif", ".heic"}
RATING_SUFFIXES == {".jpg", ".jpeg"}
VIDEO_SUFFIXES == {".mp4", ".m4v", ".mov"}

\* lines 182-183: int(exif['ISOSpeedRatings']) raises TypeError for a tuple
IsoRaises(exif) == exif.ISOSpeedRatings.kind = "tuple"

\* lines 211-214: the Rating tag is taken when it is an int in 0..5
exif_rating(exif) ==
    IF exif.Rating.kind = "int" /\ 0 <= exif.Rating.n /\ exif.Rating.n <= 5
    THEN exif.Rating ELSE PyNone

\* a handler that names the classes _parse_iso6709 names (video_parser.py 199)
ExceptValueErrorIndexError(e) == e \in {"ValueError", "IndexError"}

\* "except Exception": every exception the body of an extractor raises is an
\* instance of Exception
ExceptException(e) == e # ""

\* the exception the body of extract_exif raises ("" for none): Image.open on a
\* file that is no image (line 133), int() of a tuple (line 183)
exif_exception(f) ==
    IF Lower(f.suffix) \notin EXIF_SUFFIXES THEN ""
    ELSE IF ~f.opens THEN "UnidentifiedImageError"
    ELSE IF f.exif = EmptyExif THEN ""
    ELSE IF f.exif.ISOSpeedRatings # Absent /\ IsoRaises(f.exif) THEN "TypeError"
    ELSE ""

\* extract_exif raises to its caller what its handler (lines 221-223) lets pass
extract_exif_raises(f) ==
    exif_exception(f) # "" /\ ~ExceptException(exif_exception(f))

\* ExifParser.extract_exif: None for another suffix, for a file that cannot be
\* opened, for a file without tags and for any exception
extract_exif(f) ==
    IF Lower(f.suffix) \notin EXIF_SUFFIXES THEN NoFragment
    ELSE IF exif_exception(f) # "" THEN NoFragment
    ELSE IF f.exif = EmptyExif THEN NoFragment
    ELSE LET gps == IF f.exif.GPSInfo = NoGps THEN <<PyNone, PyNone>>
                    ELSE _get_gps_coordinates(f.exif.GPSInfo)
         IN [present       |-> TRUE,
             camera_make   |-> DictGet(f.exif.Make),
             date_taken    |-> PyNone,
             latitude      |-> gps[1],
             longitude     |-> gps[2],
             iso           |-> IF f.exif.ISOSpeedRatings = Absent THEN PyNone
                               ELSE PyInt(TruncDiv(f.exif.ISOSpeedRatings.n,
                                                   f.exif.ISOSpeedRatings.d)),
             shutter_speed |-> shutter_speed(f.exif),
             rating        |-> exif_rating(f.exif)]

\* what a write_rating call gives: its return value and the file afterwards
WriteResult(ret, f) == [ret |-> ret, file |-> f]

\* the same for every image suffix that extract_exif reads
ExifParser_write_rating_any_image(f, rating, io) ==
    IF Lower(f.suffix) \notin EXIF_SUFFIXES THEN WriteResult(FALSE, f)
    ELSE IF rating.kind # "int" \/ rating.n < 0 \/ rating.n > 5 THEN WriteResult(FALSE, f)
    ELSE IF io = "raise" THEN WriteResult(FALSE, f)
    ELSE WriteResult(TRUE, [f EXCEPT !.exif.Rating = rating])

\* ExifParser.write_rating: False for a suffix other than .jpg/.jpeg, for a rating
\* that is no int in 0..5 and when piexif or the file system raises; else the
\* Rating tag of the file is set and True returned
ExifParser_write_rating(f, rating, io) ==
    IF Lower(f.suffix) \notin RATING_SUFFIXES THEN WriteResult(FALSE, f)
    ELSE IF rating.kind # "int" \/ rating.n < 0 \/ rating.n > 5 THEN WriteResult(FALSE, f)
    ELSE IF io = "raise" THEN WriteResult(FALSE, f)
    ELSE WriteResult(TRUE, [f EXCEPT !.exif.Rating = rating])

(***************************************************************************)
(* VideoMetadataParser.  Times count units of 100 seconds, so that the     *)
(* container times after 2038 fit a 32-bit integer: 2082844800 s,          *)
(* 631152000 s and 2524608000 s are whole numbers of units.                *)
(***************************************************************************)
MP4_EPOCH_OFFSET == 20828448
SANE_AFTER == 6311520
SANE_BEFORE == 25246080

\* lines 60-69 with both ends of the range accepted
container_time_inclusive(timestamp) ==
    IF timestamp.kind = "int" /\ timestamp.n > 0
    THEN LET unix_timestamp == timestamp.n - MP4_EPOCH_OFFSET
         IN IF SANE_AFTER <= unix_timestamp /\ unix_timestamp <= SANE_BEFORE
            THEN PyInt(unix_timestamp) ELSE PyNone
    ELSE PyNone

\* lines 60-69: one time field of the container; "if timestamp and timestamp > 0",
\* then timestamp - MP4_EPOCH_OFFSET, kept when 631152000 < it < 2524608000
container_time(timestamp) ==
    IF timestamp.kind = "int" /\ timestamp.n > 0
    THEN LET unix_timestamp == timestamp.n - MP4_EPOCH_OFFSET
         IN IF SANE_AFTER < unix_timestamp /\ unix_timestamp < SANE_BEFORE
            THEN PyInt(unix_timestamp) ELSE PyNone
    ELSE PyNone

\* lines 57-71: creation_time, then modification_time; the first kept value ends
\* the loop
Method1(video) ==
    LET c == container_time(video.creation_time)
    IN IF c # PyNone THEN c ELSE container_time(video.modification_time)

\* a date string: the moment t written in the format fmt ("" when the text is
\* no date in any format that strptime is given)
DateStr(fmt, t) == [kind |-> "date_str", n |-> t, d |-> 1, s |-> fmt, seq |-> <<>>]

STANDARD_FORMAT == "%Y-%m-%d %H:%M:%S"

date_formats ==
    <<"%Y-%m-%dT%H:%M:%SZ", "%Y-%m-%dT%H:%M:%S", STANDARD_FORMAT, "%Y-%m-%d">>

\* VideoMetadataParser._parse_datetime: None for an empty string; a string in one
\* of date_formats is rewritten in the standard format; any other string is
\* returned as it is
_parse_datetime(date_str) ==
    IF ~Truthy(date_str) THEN PyNone
    ELSE IF date_str.kind = "date_str"
            /\ \E i \in DOMAIN date_formats : date_formats[i] = date_str.s
    THEN DateStr(STANDARD_FORMAT, date_str.n)
    ELSE date_str

\* lines 78-84 and 89-95: the timestamp of a tag's string, or the timestamp so
\* far when strptime raises ValueError
tag_time(date_str, creation_timestamp) ==
    LET parsed_date == _parse_datetime(date_str)
    IN IF Truthy(parsed_date)
       THEN IF parsed_date.kind = "date_str" /\ parsed_date.s = STANDARD_FORMAT
            THEN PyInt(parsed_date.n)
            ELSE creation_timestamp
       ELSE creation_timestamp

\* line 76: the vendor tag is read when no timestamp was found so far
Method2Runs(video) == ~Truthy(Method1(video)) /\ video.creationdate # Absent

\* (an empty list raises IndexError at [0]: see IndexErrorRaised)
Method2(video) ==
    IF Method2Runs(video) /\ video.creationdate.seq # <<>>
    THEN tag_time(video.creationdate.seq[1], Method1(video))
    ELSE Method1(video)

\* line 87: the year tag is read when no timestamp was found so far and its
\* list is not empty
Method3Runs(video) ==
    ~Truthy(Method2(video)) /\ video.day # Absent /\ Truthy(video.day)

Method3(video) ==
    IF Method3Runs(video)
    THEN tag_time(video.day.seq[1], Method2(video))
    ELSE Method2(video)

\* a string as the sequence of its characters
Chars(seq) == [kind |-> "chars", n |-> 0, d |-> 1, s |-> "", seq |-> seq]

IsDigit(c) == \E i \in DOMAIN Digits : Digits[i] = c
DigitValue(c) == (CHOOSE i \in DOMAIN Digits : Digits[i] = c) - 1

RECURSIVE DigitsValue(_)
DigitsValue(cs) ==
    IF cs = <<>> THEN 0
    ELSE 10 * DigitsValue(SubSeq(cs, 1, Len(cs) - 1)) + DigitValue(cs[Len(cs)])

HasSign(cs) == cs # <<>> /\ cs[1] \in {"+", "-"}
Unsigned(cs) == IF HasSign(cs) THEN Tail(cs) ELSE cs

\* int(text) for a text of signs, digits and other characters: sign, then digits
ParseInt(cs) ==
    LET body == Unsigned(cs)
    IN IF body # <<>> /\ \A i \in DOMAIN body : IsDigit(body[i])
       THEN PyInt(IF cs[1] = "-" THEN 0 - DigitsValue(body) ELSE DigitsValue(body))
       ELSE PyNone

\* s.split(sep)[0]
RECURSIVE UpTo(_, _)
UpTo(cs, sep) ==
    IF cs = <<>> \/ cs[1] = sep THEN <<>> ELSE <<cs[1]>> \o UpTo(Tail(cs), sep)

\* float(text) for a text of the characters + - . / and digits: an optional
\* sign, digits with at most one point among them and at least one digit;
\* None stands for ValueError
ParseFloat(cs) ==
    LET body == Unsigned(cs)
        whole == UpTo(body, ".")
        frac == IF Len(whole) < Len(body)
                THEN SubSeq(body, Len(whole) + 2, Len(body)) ELSE <<>>
        all == whole \o frac
    IN IF all # <<>> /\ \A i \in DOMAIN all : IsDigit(all[i])
       THEN PyFloat(IF cs[1] = "-" THEN 0 - DigitsValue(all) ELSE DigitsValue(all),
                    Pow(10, Len(frac)))
       ELSE PyNone

\* s[a:b] with indexes from 0, as Python slices
Slice(cs, a, b) ==
    LET hi == IF b > Len(cs) THEN Len(cs) ELSE b
    IN IF a >= hi THEN <<>> ELSE SubSeq(cs, a + 1, hi)

\* s.rstrip('/')
RECURSIVE RStrip(_)
RStrip(cs) ==
    IF cs # <<>> /\ cs[Len(cs)] = "/" THEN RStrip(SubSeq(cs, 1, Len(cs) - 1)) ELSE cs

\* lines 187-189: the index (from 0) of the first sign after the first character
RECURSIVE lat_end(_, _)
lat_end(cs, i) ==
    IF i < Len(cs) /\ cs[i + 1] \notin {"+", "-"} THEN lat_end(cs, i + 1) ELSE i

\* VideoMetadataParser._parse_iso6709: the pair (latitude, longitude), or None
\* (here a pair of None) when float() raises ValueError
_parse_iso6709(iso6709_str) ==
    LET cs == RStrip(iso6709_str.seq)
        e == lat_end(cs, 1)
        lat_str == Slice(cs, 0, e)
        lon_str == UpTo(Slice(cs, e, Len(cs)), "/")
        latitude == ParseFloat(lat_str)
        longitude == ParseFloat(lon_str)
    IN IF latitude = PyNone \/ longitude = PyNone THEN <<PyNone, PyNone>>
       ELSE <<latitude, longitude>>

\* line 116: video['rate'][0] if video['rate'] else None
rate_value(video) == IF Truthy(video.rate) THEN video.rate.seq[1] ELSE PyNone

\* lines 115-119: int(rate_value / 20) when the field is there and truthy
scaled_rating(video) ==
    IF video.rate # Absent /\ Truthy(rate_value(video))
    THEN PyInt(TruncDiv(rate_value(video).n, 20))
    ELSE PyNone

\* lines 122-127: the custom field is read when no rating was found so far;
\* ValueError of int() keeps None
CustomRuns(video) == scaled_rating(video) = PyNone /\ video.itunes_rating # Absent

video_rating_raw(video) ==
    IF CustomRuns(video) /\ video.itunes_rating.seq # <<>>
    THEN ParseInt(video.itunes_rating.seq[1].seq)
    ELSE scaled_rating(video)

\* lines 129-130 without the range test
video_rating_unchecked(video) == video_rating_raw(video)

\* lines 129-130: the rating enters the result when it is in 0..5
video_rating(video) ==
    LET rating == video_rating_raw(video)
    IN IF rating # PyNone /\ 0 <= rating.n /\ rating.n <= 5 THEN rating ELSE PyNone

\* [0] of an empty list raises IndexError, which no inner handler catches
IndexErrorRaised(video) ==
    \/ Method2Runs(video) /\ video.creationdate.seq = <<>>
    \/ video.ISO6709 # Absent /\ video.ISO6709.seq = <<>>
    \/ CustomRuns(video) /\ video.itunes_rating.seq = <<>>

\* "if not video": a container without any tag is falsy
NoTags(video) ==
    /\ video.creationdate = Absent
    /\ video.day = Absent
    /\ video.ISO6709 = Absent
    /\ video.rate = Absent
    /\ video.itunes_rating = Absent

\* the exception the body of extract_metadata raises ("" for none): MP4() on a
\* file that is no container (line 38), [0] of an empty list
video_exception(f) ==
    IF Lower(f.suffix) \notin VIDEO_SUFFIXES THEN ""
    ELSE IF ~f.opens THEN "MP4StreamInfoError"
    ELSE IF NoTags(f.video) THEN ""
    ELSE IF IndexErrorRaised(f.video) THEN "IndexError"
    ELSE ""

\* extract_metadata raises to its caller what its handler (lines 134-136) lets pass
extract_metadata_raises(f) ==
    video_exception(f) # "" /\ ~ExceptException(video_exception(f))

\* VideoMetadataParser.extract_metadata: None for another suffix, for a file that
\* cannot be opened, for a container without tags, for any exception and for an
\* empty result
extract_metadata(f) ==
    IF Lower(f.suffix) \notin VIDEO_SUFFIXES THEN NoFragment
    ELSE IF video_exception(f) # "" THEN NoFragment
    ELSE IF NoTags(f.video) THEN NoFragment
    ELSE LET creation_timestamp == Method3(f.video)
             coords == IF f.video.ISO6709 = Absent THEN <<PyNone, PyNone>>
                       ELSE _parse_iso6709(f.video.ISO6709.seq[1])
             rating == video_rating(f.video)
         IN IF ~Truthy(creation_timestamp) /\ coords[1] = PyNone /\ rating = PyNone
            THEN NoFragment
            ELSE [NoFragment EXCEPT
                     !.present = TRUE,
                     !.date_taken = IF Truthy(creation_timestamp)
                                    THEN creation_timestamp ELSE PyNone,
                     !.latitude = coords[1],
                     !.longitude = coords[2],
                     !.rating = rating]

\* the same, writing the tag
VideoMetadataParser_write_rating_to_file(f, rating) ==
    WriteResult(TRUE, [f EXCEPT !.video.rate = PyTuple(<<PyInt(20 * rating.n)>>)])

\* VideoMetadataParser.write_rating: logs and returns False
VideoMetadataParser_write_rating(f, rating) == WriteResult(FALSE, f)

(***************************************************************************)
(* The files the extractors are called on                                  *)
(***************************************************************************)
\* a coordinate as the tag reader gives it: three rationals
Dms(deg, min, sec_n, sec_d) ==
    PyTuple(<<Rational(deg, 1), Rational(min, 1), Rational(sec_n, sec_d)>>)

LatitudeInputs == {Dms(40, 42, 4608, 100), Dms(0, 0, 0, 1), Dms(89, 59, 599, 10)}
LongitudeInputs == {Dms(74, 0, 216, 10), Dms(0, 30, 0, 1), Dms(179, 59, 5999, 100)}

ValidGps ==
    {[GPSLatitude |-> lat, GPSLatitudeRef |-> PyStr(lat_ref),
      GPSLongitude |-> lon, GPSLongitudeRef |-> PyStr(lon_ref)] :
        lat \in LatitudeInputs, lat_ref \in {"N", "S"},
        lon \in LongitudeInputs, lon_ref \in {"E", "W"}}

SomeGps == CHOOSE g \in ValidGps : g.GPSLatitude = Dms(40, 42, 4608, 100)

\* missing reference, two components, a component that is no number, zero
\* denominator
BrokenGps ==
    {[SomeGps EXCEPT !.GPSLatitudeRef = Absent],
     [SomeGps EXCEPT !.GPSLongitudeRef = PyStr("")],
     [SomeGps EXCEPT !.GPSLongitude = Absent],
     [SomeGps EXCEPT !.GPSLatitude = PyTuple(<<Rational(40, 1), Rational(42, 1)>>)],
     [SomeGps EXCEPT !.GPSLatitude =
         PyTuple(<<Rational(40, 1), PyStr("x"), Rational(0, 1)>>)],
     [SomeGps EXCEPT !.GPSLongitude =
         PyTuple(<<Rational(74, 1), Rational(0, 1), Rational(216, 0)>>)]}

GpsInputs == ValidGps \cup BrokenGps

\* exposure times: 0.004, 0.0015, 1/3, 0.6, 0.999, 1, 2, 2.25, 30 and 0 as
\* rationals, 1/250 and 1/0 as pairs
ExposureInputs ==
    {Rational(4, 1000), Rational(15, 10000), Rational(1, 3), Rational(6, 10),
     Rational(999, 1000), Rational(1, 1), Rational(2, 1), Rational(9, 4),
     PyInt(30), Rational(0, 1),
     PyTuple(<<PyInt(1), PyInt(250)>>), PyTuple(<<PyInt(1), PyInt(0)>>)}

\* raw values of the Rating tag: 0..5 and RatingReach values on either side
ExifRatingInputs ==
    {PyInt(n) : n \in (0 - RatingReach)..(5 + RatingReach)} \cup {PyStr("3"), Absent}

\* ratings handed to write_rating
RatingArgs ==
    {PyInt(n) : n \in (0 - RatingReach)..(5 + RatingReach)} \cup {PyStr("3")}

IsoSpeedInputs == {PyInt(100), PyTuple(<<PyInt(100), PyInt(200)>>)}

ImageSuffixInputs == {".jpg", ".JPG", ".jpeg", ".png", ".heic", ".gif"}

BaseImage ==
    [suffix |-> ".jpg", opens |-> TRUE,
     exif |-> [EmptyExif EXCEPT !.Make = PyStr("Canon")],
     video |-> EmptyVideo]

ImageFiles ==
    {[BaseImage EXCEPT !.exif.GPSInfo = g] : g \in GpsInputs}
    \cup {[BaseImage EXCEPT !.exif.ExposureTime = e] : e \in ExposureInputs}
    \cup {[BaseImage EXCEPT !.suffix = sfx, !.exif.Rating = r] :
             sfx \in ImageSuffixInputs, r \in ExifRatingInputs}
    \cup {[BaseImage EXCEPT !.exif.ISOSpeedRatings = i, !.exif.Rating = r] :
             i \in IsoSpeedInputs, r \in {Absent, PyInt(2)}}
    \cup {[BaseImage EXCEPT !.suffix = sfx, !.exif = EmptyExif] :
             sfx \in ImageSuffixInputs}
    \cup {[BaseImage EXCEPT !.opens = FALSE]}

\* container times: none, 0, before 1990, 1990-01-01 and the unit after it,
\* 3000000000 s, the unit before 2050-01-01, 2050-01-01 and the unit after it
CreationTimeInputs ==
    {Absent, PyNone, PyInt(0), PyInt(100),
     PyInt(MP4_EPOCH_OFFSET + SANE_AFTER), PyInt(MP4_EPOCH_OFFSET + SANE_AFTER + 1),
     PyInt(30000000),
     PyInt(MP4_EPOCH_OFFSET + SANE_BEFORE - 1), PyInt(MP4_EPOCH_OFFSET + SANE_BEFORE),
     PyInt(MP4_EPOCH_OFFSET + SANE_BEFORE + 1)}

ModificationTimeInputs ==
    {Absent, PyInt(MP4_EPOCH_OFFSET + 10000000), PyInt(MP4_EPOCH_OFFSET + SANE_AFTER)}

\* the vendor tag: missing, an empty list, a date in a known format, in the
\* standard format, with a UTC offset (no known format), the moment 0, ""
CreationDateInputs ==
    {Absent, PyTuple(<<>>),
     PyTuple(<<DateStr("%Y-%m-%dT%H:%M:%SZ", 15000000)>>),
     PyTuple(<<DateStr(STANDARD_FORMAT, 15000000)>>),
     PyTuple(<<DateStr("%Y-%m-%dT%H:%M:%S%z", 15000000)>>),
     PyTuple(<<DateStr(STANDARD_FORMAT, 0)>>),
     PyTuple(<<PyStr("")>>)}

\* the year tag: missing, an empty list, a date, a year alone
DayInputs ==
    {Absent, PyTuple(<<>>),
     PyTuple(<<DateStr("%Y-%m-%d", 16000000)>>),
     PyTuple(<<DateStr("%Y", 16000000)>>)}

RateInputs ==
    {Absent, PyTuple(<<>>)}
    \cup {PyTuple(<<PyInt(n)>>) : n \in {0 - 20, 0 - 10, 0, 20, 60, 100, 101, 119, 120}}

CustomRatingInputs ==
    {Absent, PyTuple(<<>>)}
    \cup {PyTuple(<<Chars(cs)>>) :
             cs \in {<<"3">>, <<"5">>, <<"6">>, <<"-", "1">>, <<"x">>, <<>>}}

\* ISO 6709 texts built from their parts: a latitude, a longitude, an altitude
\* segment (introduced by its sign) or none, a closing "/" or none
IsoLatitudes ==
    {[text |-> <<"+", "4", "0", ".", "7">>, value |-> PyFloat(407, 10)],
     [text |-> <<"-", "0", "5">>, value |-> PyFloat(0 - 5, 1)]}

IsoLongitudes ==
    {[text |-> <<"-", "0", "7", "3", ".", "9", "8">>, value |-> PyFloat(0 - 7398, 100)],
     [text |-> <<"+", "1", "2", "0">>, value |-> PyFloat(120, 1)]}

IsoAltitudes == {<<>>, <<"+", "1", "0", ".", "5">>, <<"-", "3">>}

IsoClosings == {<<>>, <<"/">>}

WellFormedIso ==
    {[text |-> lat.text \o lon.text \o alt \o closing,
      latitude |-> lat.value, longitude |-> lon.value] :
        lat \in IsoLatitudes, lon \in IsoLongitudes,
        alt \in IsoAltitudes, closing \in IsoClosings}

\* no second sign, or a half that is no number
MalformedIso ==
    {<<>>, <<"+">>, <<"/">>, <<"+", "4", "0", ".", "7">>, <<"4", "0">>,
     <<"+", "4", "0", "-">>, <<"+", "x", "-", "7", "3">>, <<"+", "4", "0", "-", "x", "/">>,
     <<"+", "4", ".", "0", ".", "7", "-", "7", "3">>, <<"+", "-", "7", "3">>}

IsoInputs == {w.text : w \in WellFormedIso} \cup MalformedIso

BaseVideo ==
    [suffix |-> ".mp4", opens |-> TRUE, exif |-> EmptyExif, video |-> EmptyVideo]

VideoSuffixInputs == {".mp4", ".MP4", ".mov", ".m4v", ".avi"}

VideoFiles ==
    {[BaseVideo EXCEPT !.video.creation_time = c, !.video.modification_time = m,
                       !.video.creationdate = cd, !.video.day = dy] :
        c \in CreationTimeInputs, m \in ModificationTimeInputs,
        cd \in CreationDateInputs, dy \in DayInputs}
    \cup {[BaseVideo EXCEPT !.video.rate = r, !.video.itunes_rating = cr] :
             r \in RateInputs, cr \in CustomRatingInputs}
    \cup {[BaseVideo EXCEPT !.video.ISO6709 = PyTuple(<<Chars(cs)>>)] : cs \in IsoInputs}
    \cup {[BaseVideo EXCEPT !.video.ISO6709 = PyTuple(<<>>)]}
    \cup {[BaseVideo EXCEPT !.suffix = sfx, !.video.rate = PyTuple(<<PyInt(60)>>)] :
             sfx \in VideoSuffixInputs}
    \cup {[BaseVideo EXCEPT !.opens = FALSE, !.video.rate = PyTuple(<<PyInt(60)>>)]}

Files == ImageFiles \cup VideoFiles

(***************************************************************************)
(* Calls of the extractors on the file                                     *)
(***************************************************************************)
NoCall ==
    [op |-> "", before |-> BaseImage, rating |-> PyNone, io |-> "",
     ret |-> FALSE, raised |-> FALSE, fragment |-> NoFragment,
     coords |-> <<PyNone, PyNone>>]

\* the file the extractors are called on is chosen before their first call
PutFile(f) ==
    /\ media_file = BaseImage
    /\ call = NoCall
    /\ media_file' = f
    /\ call' = NoCall
    /\ written' = PyNone
    /\ UNCHANGED <<scanVars, storeVars, geoVars, diskVars>>

ExtractExif ==
    /\ call' = [NoCall EXCEPT !.op = "extract_exif", !.before = media_file,
                              !.raised = extract_exif_raises(media_file),
                              !.fragment = extract_exif(media_file)]
    /\ UNCHANGED <<media_file, written, scanVars, storeVars, geoVars, diskVars>>

ExtractMetadata ==
    /\ call' = [NoCall EXCEPT !.op = "extract_metadata", !.before = media_file,
                              !.raised = extract_metadata_raises(media_file),
                              !.fragment = extract_metadata(media_file)]
    /\ UNCHANGED <<media_file, written, scanVars, storeVars, geoVars, diskVars>>

\* line 104: _parse_iso6709 on the first value of the location tag
ParseIso6709 ==
    /\ media_file.video.ISO6709 # Absent
    /\ media_file.video.ISO6709.seq # <<>>
    /\ call' = [NoCall EXCEPT !.op = "_parse_iso6709", !.before = media_file,
                              !.coords = _parse_iso6709(media_file.video.ISO6709.seq[1])]
    /\ UNCHANGED <<media_file, written, scanVars, storeVars, geoVars, diskVars>>

\* piexif rewrites the segments of a JPEG file: on a file that cannot be read
\* as an image it raises, on any file it may raise
WriteIo == {"ok", "raise"}

ExifWriteRating(rating, io) ==
    /\ io = "ok" => media_file.opens
    /\ LET w == ExifParser_write_rating(media_file, rating, io)
       IN /\ media_file' = w.file
          /\ call' = [NoCall EXCEPT !.op = "ExifParser.write_rating", !.before = media_file,
                                    !.rating = rating, !.io = io, !.ret = w.ret]
          /\ written' = IF w.ret THEN rating ELSE written
    /\ UNCHANGED <<scanVars, storeVars, geoVars, diskVars>>

VideoWriteRating(rating) ==
    /\ LET w == VideoMetadataParser_write_rating(media_file, rating)
       IN /\ media_file' = w.file
          /\ call' = [NoCall EXCEPT !.op = "VideoMetadataParser.write_rating",
                                    !.before = media_file, !.rating = rating, !.ret = w.ret]
    /\ UNCHANGED <<written, scanVars, storeVars, geoVars, diskVars>>


(***************************************************************************)
(* Specifications                                                          *)
(***************************************************************************)
Init ==
    /\ is_scanning = FALSE
    /\ pc = [t \in Tasks |-> "idle"]
    /\ loc = [t \in Tasks |-> NoLocals]
    /\ scan_id = [t \in Tasks |-> <<>>]
    /\ result = [t \in Tasks |-> <<>>]
    /\ scan_history = <<>>
    /\ media_store = {}
    /\ geocode_cache = {}
    /\ disk = [media_files |-> {}, scan_history |-> <<>>]
    /\ add_call = <<>>
    /\ added = {}
    /\ wall = 1
    /\ now = 1
    /\ last_request_time = 0
    /\ gpc = [g \in GeoTasks |-> "idle"]
    /\ bucket = [g \in GeoTasks |-> <<0, 0>>]
    /\ attempt = [g \in GeoTasks |-> 0]
    /\ wake = [g \in GeoTasks |-> 0]
    /\ gresult = [g \in GeoTasks |-> <<>>]
    /\ nreq = [g \in GeoTasks |-> 0]
    /\ sleeps = [g \in GeoTasks |-> <<>>]
    /\ resps = [g \in GeoTasks |-> <<>>]
    /\ request_times = <<>>
    /\ expect_hit = [g \in GeoTasks |-> FALSE]
    /\ media_file = BaseImage
    /\ call = NoCall
    /\ written = PyNone

\* scans of one MediaScanner over one CacheManager; the timestamps the store
\* writes do not steer a scan, so the wall clock stands still here
NextScan ==
    \/ \E t \in Tasks, wf \in WatchedChoices : ScanCall(t, BaseFolder, wf)
    \/ \E t \in Tasks, o \in RecordOutcomes : RecordScan(t, o)
    \/ \E t \in Tasks, o \in WalkOutcomes : Walk(t, o)
    \/ \E t \in Tasks, o \in AddOutcomes : AddFile(t, o)
    \/ \E t \in Tasks, o \in UpdateOutcomes : UpdateScan(t, o)
    \/ \E t \in Tasks, o \in UpdateOutcomes : ExceptUpdate(t, o)

SpecScan == Init /\ [][NextScan]_vars

\* the same scans with the wall clock running
NextScanClock ==
    \/ NextScan
    \/ TickWall

SpecScanClock == Init /\ [][NextScanClock]_vars

\* the step of call t that ends one awaited store operation or executor job
ScanStep(t) ==
    \/ \E o \in RecordOutcomes : RecordScan(t, o)
    \/ \E o \in WalkOutcomes : Walk(t, o)
    \/ \E o \in AddOutcomes : AddFile(t, o)
    \/ \E o \in UpdateOutcomes : UpdateScan(t, o)
    \/ \E o \in UpdateOutcomes : ExceptUpdate(t, o)

\* every awaited store operation and executor job eventually returns or raises
SpecScanFair == SpecScan /\ \A t \in Tasks : WF_vars(ScanStep(t))

\* the same scans, with base paths that are missing or cannot be listed
NextScanPaths ==
    \/ \E t \in Tasks, inp \in ScanInputs : ScanCall(t, inp[1], inp[2])
    \/ \E t \in Tasks : ScanStep(t)

SpecScanPaths == Init /\ [][NextScanPaths]_vars

\* a tree with directories up to three levels below /media
DeepListing ==
    << [dir |-> <<"media">>,                stem |-> "d", suffix |-> ".PNG"],
       [dir |-> <<"media", "A">>,           stem |-> "a", suffix |-> ".jpg"],
       [dir |-> <<"media", "A", "S">>,      stem |-> "s", suffix |-> ".mp4"],
       [dir |-> <<"media", "A", "S", "T">>, stem |-> "t", suffix |-> ".jpg"],
       [dir |-> <<"media", "B">>,           stem |-> "c", suffix |-> ".txt"] >>

\* the files of listing at the indices in keep, in the order of the listing
RECURSIVE Keep(_, _, _)
Keep(listing, keep, i) ==
    IF i > Len(listing) THEN <<>>
    ELSE (IF i \in keep THEN <<listing[i]>> ELSE <<>>) \o Keep(listing, keep, i + 1)

\* the trees the walk is called on: every choice of files of DeepListing
WalkTrees == {Keep(DeepListing, keep, 1) : keep \in SUBSET (1..Len(DeepListing))}

\* a path as the string the code holds, cut at its separators: "/media/A" is
\* <<"/", "media", "/", "A">>
RECURSIVE PathStr(_)
PathStr(p) == IF p = <<>> THEN <<>> ELSE <<"/", Head(p)>> \o PathStr(Tail(p))

\* the argument scan_path, written with or without a trailing separator
ScanPathStr(scan_path, trailing) ==
    PathStr(scan_path) \o (IF trailing THEN <<"/">> ELSE <<>>)

\* the root os.walk yields for directory dir: the top as it was given, and
\* os.path.join(root, name) below it, which adds no second separator
RootStr(dir, scan_path, trailing) ==
    IF dir = scan_path THEN ScanPathStr(scan_path, trailing) ELSE PathStr(dir)

\* str.count(os.sep)
RECURSIVE CountSep(_)
CountSep(str) ==
    IF str = <<>> THEN 0
    ELSE (IF Head(str) = "/" THEN 1 ELSE 0) + CountSep(Tail(str))

\* line 77: depth = root[len(scan_path):].count(os.sep)
depth(root, scan_path_str) ==
    CountSep(SubSeq(root, Len(scan_path_str) + 1, Len(root)))

\* max_depth is None (<<>>) or an int (<<n>>)
MaxDepthInputs == {<<>>, <<0>>, <<1>>, <<2>>}

\* lines 70-98: _walk_directory(scan_path, max_depth) on the tree listing
RECURSIVE _walk_directory_max_depth(_, _, _, _, _)
_walk_directory_max_depth(listing, scan_path, trailing, max_depth, i) ==
    IF i > Len(listing) THEN <<>>
    ELSE LET f == listing[i]
             skipped == /\ max_depth # <<>>
                        /\ depth(RootStr(f.dir, scan_path, trailing),
                                 ScanPathStr(scan_path, trailing)) > max_depth[1]
         IN (IF IsUnder(f.dir, scan_path) /\ ~skipped /\ _is_media_file(f)
             THEN <<_get_file_metadata(f)>> ELSE <<>>)
            \o _walk_directory_max_depth(listing, scan_path, trailing, max_depth, i + 1)

\* the tree is chosen before the first walk
PutTree(tree) ==
    /\ media_file = BaseImage
    /\ call = NoCall
    /\ media_file' = [listing |-> tree]
    /\ UNCHANGED <<call, written, scanVars, storeVars, geoVars, diskVars>>

WalkPaths == {<<"media">>, <<"media", "A">>, <<"media", "A", "S">>, <<"media", "B">>}

\* one call of _walk_directory on the tree
WalkCall(scan_path, trailing, max_depth) ==
    /\ "listing" \in DOMAIN media_file
    /\ call' = [op |-> "_walk_directory", scan_path |-> scan_path,
                trailing |-> trailing, max_depth |-> max_depth,
                media_files |-> _walk_directory_max_depth(media_file.listing, scan_path,
                                                          trailing, max_depth, 1)]
    /\ UNCHANGED <<media_file, written, scanVars, storeVars, geoVars, diskVars>>

NextWalk ==
    \/ \E tree \in WalkTrees : PutTree(tree)
    \/ \E scan_path \in WalkPaths, trailing \in BOOLEAN, max_depth \in MaxDepthInputs :
          WalkCall(scan_path, trailing, max_depth)

SpecWalk == Init /\ [][NextWalk]_vars

\* SELECT COUNT(*) FROM media_files
get_total_files(store) == Cardinality(store)

\* SELECT COUNT(*) FROM media_files WHERE file_type = ?
get_total_by_type(store, file_type) ==
    Cardinality({r \in store : r.file_type = file_type})

\* a caller awaits get_cache_stats(): nothing is read yet
GetCacheStatsCall ==
    /\ call = NoCall \/ (call.op = "get_cache_stats" /\ call.at = "returned")
    /\ call' = [op |-> "get_cache_stats", at |-> "total_files",
                total_files |-> 0, total_images |-> 0, total_videos |-> 0]
    /\ UNCHANGED <<media_file, written, scanVars, storeVars, geoVars, diskVars>>

\* lines 182-184: the next of the three awaited queries of get_cache_stats
\* returns; each reads the table as it is when the query runs
GetCacheStatsQuery ==
    /\ call.op = "get_cache_stats"
    /\ call.at # "returned"
    /\ call' =
         CASE call.at = "total_files" ->
                [call EXCEPT !.total_files = get_total_files(media_store),
                             !.at = "total_images"]
           [] call.at = "total_images" ->
                [call EXCEPT !.total_images = get_total_by_type(media_store, "image"),
                             !.at = "total_videos"]
           [] call.at = "total_videos" ->
                [call EXCEPT !.total_videos = get_total_by_type(media_store, "video"),
                             !.at = "returned"]
    /\ UNCHANGED <<media_file, written, scanVars, storeVars, geoVars, diskVars>>

\* the file_data of callers of add_file: an image and a video
StatsFileData ==
    {[path          |-> FilePath(FsListing[k]),
      filename      |-> FsListing[k].stem \o FsListing[k].suffix,
      folder        |-> FsListing[k].dir,
      file_type     |-> _get_file_type(FsListing[k]),
      file_size     |-> IntV(Stat(FsListing[k]).st_size),
      modified_time |-> 1] : k \in 1..3}

\* get_cache_stats while callers add files
NextStats ==
    \/ \E fd \in StatsFileData, o \in AddOutcomes : AddFileCall(fd, o)
    \/ GetCacheStatsCall
    \/ GetCacheStatsQuery

SpecStats == Init /\ [][NextStats]_vars

\* sub-folder filters that name a sub-folder more than once
FilterChoices == {<<>>, <<"A", "A">>, <<"A", "B", "A">>}

\* scans with such filters
NextScanFilters ==
    \/ \E t \in Tasks, wf \in FilterChoices : ScanCall(t, BaseFolder, wf)
    \/ \E t \in Tasks : ScanStep(t)

SpecScanFilters == Init /\ [][NextScanFilters]_vars

\* callers of the store: add_file, the user's marks, and the wall clock
NextStore ==
    \/ \E fd \in StoreFileData, o \in AddOutcomes : AddFileCall(fd, o)
    \/ \E path \in Paths(media_store), mark \in UserMarks : SetRating(path, mark)
    \/ TickWall

SpecStore == Init /\ [][NextStore]_vars

\* the task that scans when one scan is looked at
FirstTask == CHOOSE t \in Tasks : \A u \in Tasks : t <= u

\* the file_data of the direct caller: one record per path, and the malformed one
CrashFileData ==
    {fd \in StoreFileData : "modified_time" \in DOMAIN fd => fd["modified_time"] = 1}

\* one scan and a direct caller of add_file, with the process stopping at any
\* point
NextCrash ==
    \/ \E wf \in WatchedChoices : ScanCall(FirstTask, BaseFolder, wf)
    \/ ScanStep(FirstTask)
    \/ \E fd \in CrashFileData, o \in AddOutcomes : AddFileExecute(fd, o)
    \/ \E o \in AddOutcomes : AddFileCommit(o)
    \/ Crash

SpecCrash == Init /\ [][NextCrash]_vars

\* reverse_geocode callers sharing one GeocodeService
NextGeo ==
    \/ \E g \in GeoTasks, ll \in LatLonInputs : GeoCall(g, ll)
    \/ \E g \in GeoTasks : RateLimitWake(g)
    \/ \E g \in GeoTasks, resp \in Responses : HttpResponse(g, resp)
    \/ \E g \in GeoTasks : BackoffWake(g)
    \/ Tick

SpecGeo == Init /\ [][NextGeo]_vars

\* one caller that awaits each reverse_geocode call before it makes the next:
\* call g begins once the calls before it have returned
GeoCallSeq(g, ll) ==
    /\ \A h \in GeoTasks : h < g => gpc[h] = "done"
    /\ \A h \in GeoTasks : h > g => gpc[h] = "idle"
    /\ GeoCall(g, ll)

\* the clock advances while a call is in flight: the caller makes its calls
\* back to back
TickSeq ==
    /\ \E g \in GeoTasks : gpc[g] \notin {"idle", "done"}
    /\ Tick

\* one response body per status is enough to tell the ways a call can end
SeqResponses ==
    {r \in Responses : r.status = "200" => r.data.address = [municipality |-> "Oslo"]}

NextGeoSeq ==
    \/ \E g \in GeoTasks, ll \in LatLonInputs : GeoCallSeq(g, ll)
    \/ \E g \in GeoTasks : RateLimitWake(g)
    \/ \E g \in GeoTasks, resp \in SeqResponses : HttpResponse(g, resp)
    \/ \E g \in GeoTasks : BackoffWake(g)
    \/ TickSeq

SpecGeoSeq == Init /\ [][NextGeoSeq]_vars

\* the fields of address that _parse_nominatim_response reads
AddressKeys == NameKeys \o <<"municipality", "country">>

\* addresses with one or two of the fields, the second one filled and the first
\* one (where there are two) empty, blank or padded
AddressPairs(first, second) ==
    {[k \in {AddressKeys[i], AddressKeys[j]} |->
         IF k = AddressKeys[i] /\ i # j THEN v ELSE "B"] :
       i \in first, j \in second, v \in {"", " ", " A "}}

\* the first field is one that comes earlier in the order of the keys
ParseAddresses ==
    UNION {AddressPairs(1..j, {j}) : j \in DOMAIN AddressKeys}

ParseResponses ==
    {[status |-> "200", data |-> [address |-> a, display_name |-> dn]] :
        a \in ParseAddresses \cup {<<>>},
        dn \in {<<"">>, <<" Main St", " Smallville">>}}

FirstGeoTask == CHOOSE g \in GeoTasks : \A h \in GeoTasks : g <= h

\* one reverse_geocode call that is answered with HTTP 200
NextGeoParse ==
    \/ \E ll \in LatLonInputs : GeoCall(FirstGeoTask, ll)
    \/ \E resp \in ParseResponses : HttpResponse(FirstGeoTask, resp)
    \/ TickSeq

SpecGeoParse == Init /\ [][NextGeoParse]_vars

\* the extractors called on one file after another
NextParsers ==
    \/ \E f \in Files : PutFile(f)
    \/ ExtractExif
    \/ ExtractMetadata
    \/ ParseIso6709
    \/ \E rating \in RatingArgs, io \in WriteIo : ExifWriteRating(rating, io)
    \/ \E rating \in RatingArgs : VideoWriteRating(rating)

SpecParsers == Init /\ [][NextParsers]_vars

(***************************************************************************)
(* Claims about MediaScanner.scan_folder and the scan history              *)
(***************************************************************************)
Ended == {"returned", "raised"}

SomeScanRunning == \E t \in Tasks : pc[t] \in Running

\* the scan-history row of call t (once record_scan returned its id)
RowOf(t) == scan_history[scan_id[t][1]]

\* C1: at most one scan_folder call is past the re-entrancy guard at a time; a
\* call made while another is running returns 0 at once, and a rejected call
\* never runs later.
C1_OneScanInFlight ==
    /\ [](Cardinality({t \in Tasks : pc[t] \in Running}) <= 1)
    /\ [][\A t \in Tasks :
            (pc[t] = "idle" /\ pc'[t] # "idle" /\ SomeScanRunning)
                => (pc'[t] = "rejected" /\ result'[t] = <<0>>
                    /\ scan_history' = scan_history)]_vars
    /\ [][\A t \in Tasks :
            pc[t] = "rejected" => (pc'[t] = "rejected" /\ result'[t] = <<0>>)]_vars

C1_Witness ==
    \E t, u \in Tasks : pc[t] = "rejected" /\ pc[u] \in Running

\* C4: once an accepted scan whose history row was created has ended, that row
\* has been closed by update_scan exactly once.
C4_ClosedExactlyOnce ==
    \A t \in Tasks :
        (pc[t] \in Ended /\ scan_id[t] # <<>>) => RowOf(t).closes = 1

\* C5: when the exception handler closes the row of an interrupted scan, the row
\* ends with status 'failed' and the files_added counted before the failure.
C5_InterruptedIsFailed ==
    [][\A t \in Tasks :
         (pc[t] = "except_update" /\ pc'[t] = "returned")
            => /\ scan_history'[scan_id[t][1]].status = "failed"
               /\ scan_history'[scan_id[t][1]].files_added
                     = IntV(loc[t].files_added)]_vars

\* C6: when a scan completes normally, its row has status 'completed', a non-null
\* end time, files_added equal to the returned count, and an integer files_updated.
C6_CompletedRow ==
    [][\A t \in Tasks :
         (pc[t] = "update_scan" /\ pc'[t] = "returned")
            => /\ scan_history'[scan_id[t][1]].status = "completed"
               /\ scan_history'[scan_id[t][1]].end_time.kind = "integer"
               /\ scan_history'[scan_id[t][1]].files_added = IntV(result'[t][1])
               /\ scan_history'[scan_id[t][1]].files_updated.kind = "integer"]_vars

\* C7: scan_folder never propagates an exception to its caller.
C7_NeverRaises == \A t \in Tasks : pc[t] # "raised"

\* C8: is_scanning is true exactly while an accepted scan is running; every
\* accepted scan ends; and a request made when no scan is running is accepted.
C8_IdleScanningIdle ==
    /\ [](is_scanning <=> SomeScanRunning)
    /\ \A t \in Tasks : (pc[t] \in Running) ~> (pc[t] \in Ended /\ ~is_scanning)
    /\ [][\A t \in Tasks :
            (pc[t] = "idle" /\ pc'[t] # "idle" /\ ~SomeScanRunning)
                => pc'[t] = "record_scan"]_vars

C8_Witness ==
    \E t, u \in Tasks : pc[t] \in Ended /\ pc[u] \in Running

\* the media files the walk finds under the resolved paths
RECURSIVE FoundUnder(_, _)
FoundUnder(paths, i) ==
    IF i > Len(paths) THEN {}
    ELSE {FilePath(FsListing[k]) :
            k \in {k \in 1..Len(FsListing) :
                     /\ Lower(FsListing[k].suffix)
                           \in IMAGE_EXTENSIONS \cup VIDEO_EXTENSIONS
                     /\ IsUnder(FsListing[k].dir, paths[i])}}
         \cup FoundUnder(paths, i + 1)

\* C9: when a scan completes, every media file found under a resolved path has a
\* record keyed by its path in the store, and the returned count is the number
\* of those files.
C9_FoundFilesStored ==
    [][\A t \in Tasks :
         (pc[t] = "update_scan" /\ pc'[t] = "returned")
            => /\ FoundUnder(loc[t].scan_paths, 1) \subseteq Paths(media_store')
               /\ result'[t][1] = Cardinality(FoundUnder(loc[t].scan_paths, 1))]_vars

(***************************************************************************)
(* Claims about GeocodeService                                             *)
(***************************************************************************)
\* C2: any two requests to the endpoint are at least RATE_LIMIT_DELAY apart,
\* whatever the number of concurrent callers.
C2_RequestsSpaced ==
    Len(request_times) = 2
        => request_times[2] - request_times[1] >= RATE_LIMIT_DELAY

\* C3: a call for a bucket that an earlier, returned call has resolved is a
\* cache hit: it sends no request to the endpoint.
C3_SecondCallIsHit ==
    \A g \in GeoTasks : expect_hit[g] => nreq[g] = 0

\* the geocode_cache row of a bucket
CacheEntryFor(b) ==
    {e \in geocode_cache :
        /\ e.latitude = b[1]
        /\ e.longitude = b[2]
        /\ e.precision_level = COORDINATE_PRECISION}

\* C10: when a call has returned the parsed result of an HTTP 200 response, a
\* cache entry for its bucket holds that result; entries are never changed or
\* removed.
C10_ResultPersisted ==
    /\ [](\A g \in GeoTasks :
            (gpc[g] = "done" /\ gresult[g][1].ok)
                => \E e \in CacheEntryFor(bucket[g]) :
                      /\ e.location_name = gresult[g][1].location_name
                      /\ e.city = gresult[g][1].location_city
                      /\ e.country = gresult[g][1].location_country)
    /\ [][geocode_cache \subseteq geocode_cache']_vars

\* how the last request of call g ended
LastResp(g) == resps[g][Len(resps[g])]

\* the call made n requests so far and each of them ended with status st
AllEnded(g, n, st) ==
    /\ Len(resps[g]) = n
    /\ \A i \in 1..n : resps[g][i] = st

\* the first n requests of the call ended with status st
FirstEnded(g, n, st) ==
    /\ Len(resps[g]) >= n
    /\ \A i \in 1..n : resps[g][i] = st

\* the waits 2^0, 2^1, ..., 2^(n-1)
PowersOfTwo(n) == [i \in 1..n |-> Pow(2, i - 1)]

\* the waits the call made after its first n attempts
WaitsAfterFirst(g, n) ==
    [i \in 1..(IF n < Len(sleeps[g]) THEN n ELSE Len(sleeps[g])) |-> sleeps[g][i]]

\* C11: the step that ends a call whose last request did not get HTTP 200
\* returns None and writes no cache entry; and a call for a bucket begins with a
\* request to the endpoint (after the rate limit wait), so every returned call
\* has sent one, whatever earlier calls for its bucket returned.
C11_FailureNotCached ==
    /\ [][\A g \in GeoTasks :
            (gpc[g] # "done" /\ gpc'[g] = "done"
                /\ resps'[g][Len(resps'[g])] # "200")
               => /\ gresult'[g] = <<NoneResult>>
                  /\ geocode_cache' = geocode_cache]_vars
    /\ [][\A g \in GeoTasks :
            (gpc[g] = "idle" /\ gpc'[g] # "idle")
               => gpc'[g] \in {"rate_limit_sleep", "http"}]_vars
    /\ [](\A g \in GeoTasks : gpc[g] = "done" => nreq[g] >= 1)

\* a call sent a request for the bucket of an earlier call that returned None
C11_Witness ==
    \E g, h \in GeoTasks :
        /\ h < g
        /\ gpc[h] = "done" /\ LastResp(h) # "200" /\ gresult[h] = <<NoneResult>>
        /\ bucket[g] = bucket[h]
        /\ gpc[g] = "done" /\ nreq[g] >= 1

\* the progress of call g through its loop: it grows with every step of the call
Rank(g) ==
    CASE gpc[g] = "idle" -> 0
      [] gpc[g] = "rate_limit_sleep" -> 3 * attempt[g] + 1
      [] gpc[g] = "http" -> 3 * attempt[g] + 2
      [] gpc[g] = "backoff" -> 3 * attempt[g] + 3
      [] OTHER -> 3 * max_retries + 1

\* C12: a call whose requests all get HTTP 429 has waited 2^0, 2^1, ... after
\* them, and once max_retries requests got 429 it returns None without another
\* request; no call sends more than max_retries requests, and every step of a
\* call moves it forward through a loop of max_retries passes.
C12_BackoffBounded ==
    /\ [](\A g \in GeoTasks : \A n \in 1..max_retries :
            AllEnded(g, n, "429")
               => /\ sleeps[g] = PowersOfTwo(n)
                  /\ nreq[g] \in {n, n + 1}
                  /\ (n = max_retries => gpc[g] \in {"backoff", "done"})
                  /\ (gpc[g] = "done"
                        => (n = max_retries /\ gresult[g] = <<NoneResult>>)))
    /\ [](\A g \in GeoTasks : nreq[g] <= max_retries /\ Len(sleeps[g]) <= max_retries)
    /\ [][\A g \in GeoTasks :
            <<gpc[g], attempt[g]>> # <<gpc'[g], attempt'[g]>>
               => Rank(g) < Rank(g)']_vars

\* a call returned None after max_retries requests that all got 429
C12_Witness ==
    \E g \in GeoTasks :
        /\ AllEnded(g, max_retries, "429")
        /\ gpc[g] = "done"
        /\ nreq[g] = max_retries

\* C13 as stated: for every n up to max_retries, a call whose first n attempts
\* timed out has made the same waits after them as a call whose first n attempts
\* got HTTP 429.
C13_SameBackoffUpToCeiling ==
    \A g, h \in GeoTasks : \A n \in 1..max_retries :
        (FirstEnded(g, n, "timeout") /\ FirstEnded(h, n, "429"))
            => WaitsAfterFirst(g, n) = WaitsAfterFirst(h, n)

\* C13: for every n below max_retries, a call whose first n attempts timed out
\* has made the same waits after them as a call whose first n attempts got HTTP
\* 429; a call whose max_retries attempts all timed out has returned None
\* without the last wait.
C13_SameBackoffBelowCeiling ==
    /\ \A g, h \in GeoTasks : \A n \in 1..(max_retries - 1) :
          (FirstEnded(g, n, "timeout") /\ FirstEnded(h, n, "429"))
              => WaitsAfterFirst(g, n) = WaitsAfterFirst(h, n)
    /\ \A g \in GeoTasks :
          AllEnded(g, max_retries, "timeout")
              => /\ sleeps[g] = PowersOfTwo(max_retries - 1)
                 /\ gpc[g] = "done"
                 /\ gresult[g] = <<NoneResult>>

\* one call timed out on, and another got 429 for, every attempt but the last
C13_Witness ==
    \E g, h \in GeoTasks :
        /\ FirstEnded(g, max_retries - 1, "timeout")
        /\ FirstEnded(h, max_retries - 1, "429")
        /\ Len(sleeps[g]) >= max_retries - 1

\* the HTTP statuses that are neither 200 nor 429
OtherHttpStatuses == Statuses \ {"200", "429", "timeout", "error"}

\* C14: the step in which a request gets an HTTP status other than 200 and 429
\* ends the call with None, with no wait added and no request sent; a call that
\* has returned sends no request and makes no wait.
C14_OtherStatusReturnsAtOnce ==
    /\ [][\A g \in GeoTasks :
            (Len(resps'[g]) > Len(resps[g])
                /\ resps'[g][Len(resps'[g])] \in OtherHttpStatuses)
               => /\ gpc'[g] = "done"
                  /\ gresult'[g] = <<NoneResult>>
                  /\ sleeps'[g] = sleeps[g]
                  /\ nreq'[g] = nreq[g]]_vars
    /\ [][\A g \in GeoTasks :
            gpc[g] = "done"
               => /\ gpc'[g] = "done"
                  /\ sleeps'[g] = sleeps[g]
                  /\ nreq'[g] = nreq[g]]_vars

\* a call returned on such a status after one retry
C14_Witness ==
    \E g \in GeoTasks :
        /\ gpc[g] = "done"
        /\ Len(resps[g]) = 2
        /\ LastResp(g) \in OtherHttpStatuses
        /\ Len(sleeps[g]) = 1

(***************************************************************************)
(* Claims about the table media_files                                      *)
(***************************************************************************)
\* C15: the table holds at most one row per path, and an add_file that writes a
\* row for a path that has one removes the old row: the number of rows stays.
C15_OneRowPerPath ==
    /\ [](\A r1, r2 \in media_store : r1.path = r2.path => r1 = r2)
    /\ [][\A r \in media_store : \A n \in media_store' :
            (n.path = r.path /\ n.id # r.id)
               => /\ r \notin media_store'
                  /\ Cardinality(media_store') = Cardinality(media_store)]_vars

\* two paths are stored and the row of one of them was written a second time
C15_Witness ==
    /\ Cardinality(media_store) = 2
    /\ \E r \in media_store : r.id > 2

\* the scan of call u was closed by line 172 and returned
CompletedScan(u) ==
    /\ pc[u] = "returned"
    /\ scan_id[u] # <<>>
    /\ RowOf(u).files_updated = TextV("completed")

\* call t scans the base path and the sub-folders a completed scan u scanned
RescanOf(t, u) ==
    /\ t # u
    /\ CompletedScan(u)
    /\ scan_id[t] # <<>>
    /\ RowOf(t).folder_path = RowOf(u).folder_path
    /\ RowOf(t).scan_type = RowOf(u).scan_type

C17_MarksKept ==
    [][\A r \in media_store : \A n \in media_store' :
         (n.path = r.path /\ n.id # r.id)
            => /\ n.is_favorited = r.is_favorited
               /\ n.rating = r.rating
               /\ n.rated_at = r.rated_at]_vars

(***************************************************************************)
(* Claims about the walk of scan_folder                                    *)
(***************************************************************************)
\* C18: an add_file of a scan that stores nothing leaves files_added as it was
\* and the scan goes on: to the next file of the walk if there is one, else to the
\* next path or to update_scan; and a scan that returns from update_scan returns
\* files_added and leaves its row with status 'completed'.
C18_FileFailureSkipped ==
    /\ [][\A t \in Tasks :
            (pc[t] = "add_file" /\ media_store' = media_store
                /\ <<pc[t], loc[t]>> # <<pc'[t], loc'[t]>>)
               => /\ pc'[t] \in {"add_file", "walk", "update_scan"}
                  /\ loc'[t].files_added = loc[t].files_added
                  /\ (loc[t].file_idx < Len(loc[t].media_files)
                        => /\ pc'[t] = "add_file"
                           /\ loc'[t].media_files = loc[t].media_files
                           /\ loc'[t].file_idx = loc[t].file_idx + 1)]_vars
    /\ [][\A t \in Tasks :
            (pc[t] = "update_scan" /\ pc'[t] = "returned")
               => /\ result'[t] = <<loc[t].files_added>>
                  /\ scan_history'[scan_id[t][1]].status = "completed"]_vars

\* a scan of the whole tree, every add_file of which failed, has completed
C18_Witness ==
    \E t \in Tasks :
        /\ CompletedScan(t)
        /\ RowOf(t).scan_type = <<>>
        /\ RowOf(t).status = "completed"
        /\ result[t] = <<0>>
        /\ media_store = {}

\* the requested sub-folders joined to the base path
Requested(base_folder, watched_folders) ==
    {base_folder \o <<watched_folders[i]>> : i \in 1..Len(watched_folders)}

C20_FatalIsFailed ==
    \A t \in Tasks :
        (pc[t] \in Ended /\ scan_id[t] # <<>>
            /\ (RowOf(t).folder_path \notin Dirs \/ RowOf(t).folder_path \in Unreadable))
           => RowOf(t).status = "failed"

(***************************************************************************)
(* Claims about commits                                                    *)
(***************************************************************************)
\* C21: the row of every add_file call that returned is in the database file;
\* and when the process stops while a scan is walking, adding files or about to
\* close its row, the table media_files then holds a row for each of those
\* calls and the row of the scan has status 'running' and a null end time.
C21_CommittedSurvivesStop ==
    /\ [](added \subseteq Paths(disk.media_files))
    /\ [][((\E t \in Tasks : pc[t] # "stopped") /\ (\A t \in Tasks : pc'[t] = "stopped"))
            => /\ added \subseteq Paths(media_store')
               /\ \A t \in Tasks :
                     pc[t] \in {"walk", "add_file", "update_scan"}
                        => /\ scan_id[t][1] \in DOMAIN scan_history'
                           /\ scan_history'[scan_id[t][1]].status = "running"
                           /\ scan_history'[scan_id[t][1]].end_time = NullV]_vars

\* the process stopped during a scan, after an add_file had returned and while
\* another add_file had not committed
C21_Witness ==
    /\ \A t \in Tasks : pc[t] = "stopped"
    /\ \E t \in Tasks : scan_id[t] # <<>> /\ RowOf(t).status = "running"
    /\ added # {}
    /\ Cardinality(media_store) = 1
    /\ next_rowid(disk.media_files) = 2

(***************************************************************************)
(* Claims about the statistics                                             *)
(***************************************************************************)
\* SELECT MAX(end_time) FROM scan_history WHERE status = 'completed':
\* MAX skips NULL and is NULL over no rows
MaxEndTime(hist) ==
    LET ends == {hist[i].end_time.n :
                    i \in {j \in DOMAIN hist : /\ hist[j].status = "completed"
                                               /\ hist[j].end_time.kind = "integer"}}
    IN IF ends = {} THEN NullV
       ELSE IntV(CHOOSE m \in ends : \A e \in ends : e <= m)

\* get_cache_stats()["last_scan_time"]: "if row and row[0]" keeps None for NULL and 0
last_scan_time(hist) ==
    LET row0 == MaxEndTime(hist)
    IN IF row0.kind = "integer" /\ row0.n # 0 THEN IsoFormat(row0.n) ELSE NullV

\* end times of the scans that line 172 closed (they ran to their end); a scan
\* closed by the handler (line 180) failed, an unclosed one is running
CompletedEndTimes ==
    {scan_history[i].end_time.n :
        i \in {j \in DOMAIN scan_history :
                  /\ scan_history[j].files_updated = TextV("completed")
                  /\ scan_history[j].end_time.kind = "integer"}}

\* C22: last_scan_time is the greatest end time among the scans that completed,
\* and null when none completed; failed and running scans do not count.
C22_LastScanOfCompleted ==
    last_scan_time(scan_history) =
        IF CompletedEndTimes = {} THEN NullV
        ELSE IsoFormat(CHOOSE m \in CompletedEndTimes :
                          \A e \in CompletedEndTimes : e <= m)

(***************************************************************************)
(* Claims about the extractors                                             *)
(***************************************************************************)
\* C23: VideoMetadataParser.write_rating returns False for every file and every
\* rating, and leaves the file as it was.
C23_VideoWriteFails ==
    call.op = "VideoMetadataParser.write_rating"
        => (call.ret = FALSE /\ media_file = call.before)

C23_Witness ==
    /\ call.op = "VideoMetadataParser.write_rating"
    /\ Lower(call.before.suffix) \in VIDEO_SUFFIXES
    /\ call.rating = PyInt(3)
    /\ call.before.video.rate = PyTuple(<<PyInt(60)>>)

IsRating(v) == v.kind = "int" /\ 0 <= v.n /\ v.n <= 5

DmsUnits(value) ==
    value.seq[1].n * DegreeUnits + value.seq[2].n * (DegreeUnits \div 60)
        + (value.seq[3].n * (DegreeUnits \div 3600)) \div value.seq[3].d

\* C25: for a valid (degrees, minutes, seconds) triple and reference, the
\* latitude is sign * (d + m/60 + s/3600) with sign -1 for 'S', the longitude
\* the same with sign -1 for 'W'; 40 42' 46.08" N, 74 0' 21.6" W gives
\* (40.7128, -74.0060).
C25_SignedDecimalDegrees ==
    (call.op = "extract_exif" /\ call.before.exif.GPSInfo \in ValidGps
        /\ call.fragment.present)
      => LET gps == call.before.exif.GPSInfo
             lat_sign == IF gps.GPSLatitudeRef = PyStr("S") THEN 0 - 1 ELSE 1
             lon_sign == IF gps.GPSLongitudeRef = PyStr("W") THEN 0 - 1 ELSE 1
         IN /\ call.fragment.latitude = Degrees(lat_sign * DmsUnits(gps.GPSLatitude))
            /\ call.fragment.longitude = Degrees(lon_sign * DmsUnits(gps.GPSLongitude))
            /\ (/\ gps.GPSLatitude = Dms(40, 42, 4608, 100)
                /\ gps.GPSLatitudeRef = PyStr("N")
                /\ gps.GPSLongitude = Dms(74, 0, 216, 10)
                /\ gps.GPSLongitudeRef = PyStr("W"))
                  => /\ call.fragment.latitude = Degrees(14656608)
                     /\ call.fragment.longitude = Degrees(0 - 26642160)

C25_Witness ==
    /\ call.op = "extract_exif"
    /\ call.before.exif.GPSInfo \in ValidGps
    /\ call.before.exif.GPSInfo.GPSLatitudeRef = PyStr("S")
    /\ call.before.exif.GPSInfo.GPSLongitudeRef = PyStr("W")
    /\ call.fragment.latitude = Degrees(0 - 14656608)
    /\ call.fragment.longitude = Degrees(0 - 26642160)

\* C26: for a positive exposure e the shutter speed is "1/" and round(1/e)
\* when e < 1, and e with one decimal and "s" when e >= 1.
C26_ShutterRounded ==
    (call.op = "extract_exif" /\ call.fragment.present
        /\ call.before.exif.ExposureTime.kind = "rational"
        /\ call.before.exif.ExposureTime.n > 0 /\ call.before.exif.ExposureTime.d > 0)
      => LET e == call.before.exif.ExposureTime
         IN call.fragment.shutter_speed =
              IF e.n < e.d THEN PyStr("1/" \o IntToStr(RoundDiv(e.d, e.n)))
              ELSE PyStr(OneDecimal(e))

\* the result of converting the container time t
Converted(t) == t.n - MP4_EPOCH_OFFSET

\* C27 as stated: the converted time is accepted exactly when it lies in the
\* range, both ends included.
C27_RangeInclusive ==
    (call.op = "extract_metadata" /\ call.before.video.creation_time.kind = "int"
        /\ call.before.video.creation_time.n > 0)
      => LET t == call.before.video.creation_time
         IN container_time(t) =
              IF SANE_AFTER <= Converted(t) /\ Converted(t) <= SANE_BEFORE
              THEN PyInt(Converted(t)) ELSE PyNone

\* C27: a container time t is converted to t - 2082844800 and accepted exactly
\* when 631152000 < result < 2524608000, both ends excluded; an accepted
\* creation time is the capture time of the fragment; 3000000000 gives 917155200.
C27_RangeExclusive ==
    (call.op = "extract_metadata" /\ call.before.video.creation_time.kind = "int"
        /\ call.before.video.creation_time.n > 0)
      => LET t == call.before.video.creation_time
             accepted == SANE_AFTER < Converted(t) /\ Converted(t) < SANE_BEFORE
         IN /\ container_time(t) = IF accepted THEN PyInt(Converted(t)) ELSE PyNone
            /\ (accepted /\ call.fragment.present)
                  => call.fragment.date_taken = PyInt(Converted(t))
            /\ t = PyInt(30000000) => container_time(t) = PyInt(9171552)

\* a creation time of exactly 1990-01-01 was discarded and the next source taken
C27_Witness ==
    /\ call.op = "extract_metadata"
    /\ call.before.video.creation_time = PyInt(MP4_EPOCH_OFFSET + SANE_AFTER)
    /\ call.before.video.modification_time = Absent
    /\ call.fragment.present
    /\ call.fragment.date_taken = PyInt(15000000)

\* the value a tag's first string stands for: a date in one of date_formats
UsableTag(tag) ==
    IF tag # Absent /\ tag.seq # <<>> /\ tag.seq[1].kind = "date_str"
          /\ \E i \in DOMAIN date_formats : date_formats[i] = tag.seq[1].s
    THEN PyInt(tag.seq[1].n) ELSE PyNone

\* the first source that yields a usable value
FirstUsable(video) ==
    IF Method1(video) # PyNone THEN Method1(video)
    ELSE IF UsableTag(video.creationdate) # PyNone THEN UsableTag(video.creationdate)
    ELSE UsableTag(video.day)

\* C28: the capture time of a video is the value of the first of container
\* time, vendor tag and year tag that yields a usable value; an absent,
\* unparsable or out-of-range source makes the next one be consulted.
C28_FirstUsableSource ==
    (call.op = "extract_metadata" /\ Lower(call.before.suffix) \in VIDEO_SUFFIXES
        /\ call.before.opens)
      => call.fragment.date_taken = FirstUsable(call.before.video)

\* C29: for a text made of a signed latitude, a signed longitude, an optional
\* altitude segment and an optional closing "/", _parse_iso6709 returns the
\* latitude and the longitude; for a text without a second sign or with a half
\* that is no number it returns None.
C29_Iso6709Parsed ==
    call.op = "_parse_iso6709"
      => LET text == call.before.video.ISO6709.seq[1].seq
         IN IF text \in MalformedIso
            THEN call.coords = <<PyNone, PyNone>>
            ELSE \A w \in WellFormedIso :
                    w.text = text => call.coords = <<w.latitude, w.longitude>>

\* the raw rating of a file lies outside 0..5, the scaled field counting as
\* its twentieth
RawRatingOutside(f) ==
    \/ f.exif.Rating.kind = "int" /\ ~IsRating(f.exif.Rating)
    \/ /\ f.video.rate # Absent /\ Truthy(rate_value(f.video))
       /\ (rate_value(f.video).n < 0 \/ rate_value(f.video).n > 100)
    \/ /\ CustomRuns(f.video) /\ f.video.itunes_rating.seq # <<>>
       /\ ParseInt(f.video.itunes_rating.seq[1].seq) # PyNone
       /\ ~IsRating(ParseInt(f.video.itunes_rating.seq[1].seq))

\* C30 as stated: no fragment has a rating outside 0..5, and a raw rating
\* outside the range gives no rating.
C30_RawOutsideGivesNone ==
    call.op \in {"extract_exif", "extract_metadata"}
      => /\ call.fragment.rating = PyNone \/ IsRating(call.fragment.rating)
         /\ RawRatingOutside(call.before) => call.fragment.rating = PyNone

\* the same with the scaled field divided by 20 and truncated toward zero
TruncatedRatingOutside(f) ==
    \/ f.exif.Rating.kind = "int" /\ ~IsRating(f.exif.Rating)
    \/ /\ f.video.rate # Absent /\ Truthy(rate_value(f.video))
       /\ (rate_value(f.video).n <= 0 - 20 \/ rate_value(f.video).n >= 120)
    \/ /\ CustomRuns(f.video) /\ f.video.itunes_rating.seq # <<>>
       /\ ParseInt(f.video.itunes_rating.seq[1].seq) # PyNone
       /\ ~IsRating(ParseInt(f.video.itunes_rating.seq[1].seq))

\* C30: no fragment has a rating outside 0..5; a raw rating outside the range
\* gives no rating, where the video scaled field counts as its twentieth
\* truncated toward zero (101..119 is rating 5, -19..-1 is rating 0).
C30_RatingInRange ==
    call.op \in {"extract_exif", "extract_metadata"}
      => /\ call.fragment.rating = PyNone \/ IsRating(call.fragment.rating)
         /\ TruncatedRatingOutside(call.before) => call.fragment.rating = PyNone
         /\ (/\ call.op = "extract_metadata" /\ call.fragment.present
             /\ call.before.video.rate = PyTuple(<<PyInt(119)>>))
               => call.fragment.rating = PyInt(5)

\* an image whose Rating tag is 6 gave a fragment without a rating
C30_Witness ==
    /\ call.op = "extract_exif"
    /\ call.before.exif.Rating = PyInt(6)
    /\ call.fragment.present
    /\ call.fragment.rating = PyNone

(***************************************************************************)
(* Claims about the parsed geocoding response                              *)
(***************************************************************************)
\* the value of the first of keys that address has with a value for which Kept
\* holds, stripped; else the fallback, stripped
FirstField(address, keys, fallback, Kept(_)) ==
    LET hits == {i \in DOMAIN keys : keys[i] \in DOMAIN address /\ Kept(address[keys[i]])}
    IN IF hits = {} THEN Strip(fallback)
       ELSE Strip(address[keys[CHOOSE i \in hits : \A j \in hits : i <= j]])

NonBlank(v) == Strip(v) # ""
NonEmpty(v) == v # ""

\* the result the statement gives for a body, with the fields chosen by Kept
ParsedAs(data, Kept(_)) ==
    [ok |-> TRUE,
     location_name |-> FirstField(data.address, NameKeys, data.display_name[1], Kept),
     location_city |-> FirstField(data.address, CityKeys, "", Kept),
     location_country |-> FirstField(data.address, <<"country">>, "", Kept)]

\* C31 as stated: the place name is the first non-blank field in the order
\* amenity .. city, else the first segment of display_name; the city is the
\* first non-blank of city, town, village, municipality; every field is a string.
C31_FirstNonBlankField ==
    [][\A resp \in ParseResponses :
          HttpResponse(FirstGeoTask, resp)
             => gresult'[FirstGeoTask] = <<ParsedAs(resp.data, NonBlank)>>]_vars

\* C31: the place name is the first non-empty field in the order amenity ..
\* city with blanks around it removed (so a field of blanks only gives the empty
\* string and ends the search), else the first segment of display_name; the city
\* likewise over city, town, village, municipality; every field is a string.
C31_FirstNonEmptyField ==
    [][\A resp \in ParseResponses :
          HttpResponse(FirstGeoTask, resp)
             => gresult'[FirstGeoTask] = <<ParsedAs(resp.data, NonEmpty)>>]_vars

\* a blank suburb gave the empty place name although the city is filled
C31_Witness ==
    /\ gpc[FirstGeoTask] = "done"
    /\ gresult[FirstGeoTask][1].ok
    /\ gresult[FirstGeoTask][1].location_name = ""
    /\ gresult[FirstGeoTask][1].location_city = "B"

(***************************************************************************)
(* Claims about the failures of the extractors                             *)
(***************************************************************************)
\* C32: neither extractor raises to its caller: for every file and every
\* failure inside (no metadata, a file that cannot be read, another suffix, a
\* field of an unexpected type, an empty tag list) extract_exif and
\* extract_metadata return a fragment or None.
C32_ExtractorsNeverRaise ==
    call.op \in {"extract_exif", "extract_metadata"}
       => /\ ~call.raised
          /\ call.fragment.present \/ call.fragment = NoFragment
          /\ (exif_exception(call.before) # "" /\ call.op = "extract_exif")
                => call.fragment = NoFragment
          /\ (video_exception(call.before) # "" /\ call.op = "extract_metadata")
                => call.fragment = NoFragment

\* int() of a tuple of ISO values raised TypeError inside extract_exif and the
\* call returned None
C32_Witness ==
    /\ call.op = "extract_exif"
    /\ exif_exception(call.before) = "TypeError"
    /\ ~call.raised
    /\ call.fragment = NoFragment

(***************************************************************************)
(* Claims about the precedence of the two video rating fields              *)
(***************************************************************************)
\* the call read a container whose scaled field holds a value in 0..100
ScaledPresent ==
    /\ call.op = "extract_metadata"
    /\ Lower(call.before.suffix) \in VIDEO_SUFFIXES
    /\ call.before.opens
    /\ call.before.video.rate # Absent
    /\ call.before.video.rate.seq # <<>>
    /\ call.before.video.rate.seq[1].n \in 0..100

\* C33: when the 0-100 scaled field is present the rating is that value
\* divided by 20, whatever the custom string field holds (it is not consulted),
\* for every scaled value, 0 included.
C33_ScaledFieldFirst ==
    ScaledPresent
       => call.fragment.rating = PyInt(call.before.video.rate.seq[1].n \div 20)

(***************************************************************************)
(* Claims about GPS conversion failures                                    *)
(***************************************************************************)
\* the call read an image whose GPS tags cannot be converted
GpsFailure ==
    /\ call.op = "extract_exif"
    /\ Lower(call.before.suffix) \in EXIF_SUFFIXES
    /\ call.before.opens
    /\ call.before.exif.GPSInfo \in BrokenGps

\* C34: a GPS conversion failure (zero denominator, wrong component count,
\* type mismatch, missing reference) gives both coordinates absent while the
\* other fields of the image are still extracted, and in every fragment
\* latitude is present exactly when longitude is.
C34_GpsFailureGivesNoCoordinates ==
    /\ GpsFailure
          => /\ call.fragment.present
             /\ call.fragment.latitude = PyNone
             /\ call.fragment.longitude = PyNone
             /\ call.fragment.camera_make = DictGet(call.before.exif.Make)
    /\ call.op \in {"extract_exif", "extract_metadata"}
          => (call.fragment.latitude = PyNone <=> call.fragment.longitude = PyNone)

(***************************************************************************)
(* Claims about the order of the store operations of one scan              *)
(***************************************************************************)
\* C35: within one accepted scan record_scan has returned before the first
\* add_file, the add_file calls follow one another in the order of the walk
\* (each has ended before the next starts), the walk of a path has finished
\* before any of its files is handed to add_file, and update_scan is issued only
\* after the last add_file.
C35_StoreOperationsOrdered ==
    [][\A t \in Tasks :
          /\ pc'[t] \in {"walk", "add_file"}
                => /\ pc[t] \in {"record_scan", "walk", "add_file"}
                   /\ scan_id'[t] # <<>>
                   /\ scan_id'[t][1] \in 1..Len(scan_history')
                   /\ scan_history'[scan_id'[t][1]].status = "running"
          /\ pc'[t] = "add_file"
                => /\ loc'[t].scan_paths[loc'[t].path_idx] \in loc'[t].walked
                   /\ loc'[t].media_files
                         = _walk_directory(loc'[t].scan_paths[loc'[t].path_idx])
                   /\ loc'[t].file_idx \in 1..Len(loc'[t].media_files)
                   /\ loc'[t].file_idx = IF pc[t] # "add_file" THEN 1
                                         ELSE IF loc'[t] = loc[t] THEN loc[t].file_idx
                                         ELSE loc[t].file_idx + 1
          /\ pc[t] = "add_file"
                => /\ scan_history' = scan_history
                   /\ pc'[t] \in {"add_file", "walk", "update_scan"}
                   /\ pc'[t] # "add_file" => loc[t].file_idx = Len(loc[t].media_files)
          /\ pc[t] \in {"update_scan", "except_update"}
                => pc'[t] \notin {"record_scan", "walk", "add_file"}]_vars

\* update_scan is about to be issued after the last file of a walk went to add_file
C35_Witness ==
    \E t \in Tasks :
       /\ pc[t] = "update_scan"
       /\ loc[t].walked # {}
       /\ Len(loc[t].media_files) > 1
       /\ loc[t].file_idx = Len(loc[t].media_files)

(***************************************************************************)
(* Claims about a rejected scan request                                    *)
(***************************************************************************)
\* C36: a scan_folder call rejected because a scan is running changes nothing:
\* no scan-history row, no MediaRecord, and _is_scanning stays set, so the
\* running scan is still protected against the next request until it ends.
C36_RejectedCallChangesNothing ==
    /\ [][\A t \in Tasks :
            (pc[t] = "idle" /\ pc'[t] = "rejected")
               => /\ scan_history' = scan_history
                  /\ media_store' = media_store
                  /\ disk' = disk
                  /\ is_scanning /\ is_scanning'
                  /\ scan_id' = scan_id
                  /\ loc' = loc
                  /\ \A u \in Tasks \ {t} : pc'[u] = pc[u] /\ result'[u] = result[u]]_vars
    /\ []((\E u \in Tasks : pc[u] \in Running) => is_scanning)

\* a call was rejected while the scan it met is at its files, with the one row
\* of that scan in the history
C36_Witness ==
    \E t, u \in Tasks :
       /\ pc[t] = "rejected" /\ result[t] = <<0>>
       /\ pc[u] = "add_file"
       /\ is_scanning
       /\ Len(scan_history) = 1

RECURSIVE WithinLevels(_, _, _, _)
WithinLevels(tree, scan_path, max_depth, i) ==
    IF i > Len(tree) THEN <<>>
    ELSE LET f == tree[i]
             level == Len(f.dir) - Len(scan_path)
         IN (IF IsUnder(f.dir, scan_path) /\ _is_media_file(f)
                   /\ (max_depth = <<>> \/ level <= max_depth[1])
             THEN <<FilePath(f)>> ELSE <<>>)
            \o WithinLevels(tree, scan_path, max_depth, i + 1)

WalkedPaths == [i \in DOMAIN call.media_files |-> call.media_files[i]["path"]]

\* C38: with max_depth = n, _walk_directory returns exactly the media files
\* whose directory lies at most n levels below the scan path (level 0 is the
\* scan path itself), whether or not the scan path ends with a separator; with
\* max_depth absent it returns every media file of the tree.
C38_WalkWithinMaxDepth ==
    call.op = "_walk_directory"
       => WalkedPaths = WithinLevels(media_file.listing, call.scan_path,
                                     call.max_depth, 1)

(***************************************************************************)
(* Claims about the statistics read while files are added                  *)
(***************************************************************************)
\* C39: get_cache_stats returns a consistent snapshot also while files are
\* being added: in every result total_files = total_images + total_videos,
\* every stored record being an image or a video.
C39_StatsSnapshotConsistent ==
    (call.op = "get_cache_stats" /\ call.at = "returned"
        /\ \A r \in media_store : r.file_type \in {"image", "video"})
       => call.total_files = call.total_images + call.total_videos

(***************************************************************************)
(* Claims about the scan history                                           *)
(***************************************************************************)
\* the rows of the history that a step changes
ChangedRows == {i \in 1..Len(scan_history) : scan_history'[i] # scan_history[i]}

\* C40: the scan history is append-only: record_scan adds one row with a fresh
\* id and changes no other row, update_scan(scan_id, ...) changes only the row
\* with that id and never its folder path or start time, and no operation
\* removes a row.
C40_HistoryAppendOnly ==
    [][/\ Len(scan_history') \in {Len(scan_history), Len(scan_history) + 1}
       /\ \A i \in 1..Len(scan_history) :
             /\ scan_history'[i].folder_path = scan_history[i].folder_path
             /\ scan_history'[i].scan_type = scan_history[i].scan_type
             /\ scan_history'[i].start_time = scan_history[i].start_time
       /\ Len(scan_history') = Len(scan_history) + 1
             => /\ ChangedRows = {}
                /\ \E t \in Tasks :
                      /\ pc[t] = "record_scan"
                      /\ scan_id'[t] = <<Len(scan_history')>>
                      /\ \A u \in Tasks \ {t} : scan_id'[u] # scan_id'[t]
       /\ Len(scan_history') = Len(scan_history)
             => \A i \in ChangedRows :
                   \E t \in Tasks :
                      /\ pc[t] \in {"update_scan", "except_update"}
                      /\ scan_id[t] = <<i>>]_vars

\* the row of a second scan is being closed after the row of the first one was
C40_Witness ==
    /\ Len(scan_history) = 2
    /\ scan_history[1].closes = 1
    /\ scan_history[2].closes = 1
    /\ scan_history[1].end_time # NullV

====
